---- MODULE Spec2Model ----
(***************************************************************************)
(* State-machine model of the safety-chat rate limiter:                    *)
(*   storage/storage.py            PluginPersistentStorage (host KV + TTL) *)
(*   utils/rate_limiter_algorithms.py   the five algorithms                *)
(*   tools/rate_limiter_check.py, tools/rate_limiter_status.py  the tools  *)
(*                                                                         *)
(* Numbers.  time.time() is a float; the model counts time in ticks of     *)
(* 1/TicksPerSec second.  tokens and water are floats; the model counts    *)
(* them in units of 1/Unit token.  A rate is an integer number of units    *)
(* per tick, i.e. rate*TicksPerSec/Unit tokens per second, so every        *)
(* product time_passed*rate of the source is an exact integer here.        *)
(* Python's int() truncates towards zero: IntTrunc.                        *)
(*                                                                         *)
(* One call reads the clock once: every time.time() of a call returns the  *)
(* value of now at which the action fires.                                 *)
(***************************************************************************)
EXTENDS Integers, Sequences, FiniteSets, TLC

TicksPerSec == 2
Unit == 4
MaxTime == 6
SvcMaxTime == 2

VARIABLES
    now,        \* the clock, in ticks
    cfg,        \* the algorithm and its parameters, fixed for a behaviour
    host,       \* session_storage of the host: key -> serialized bytes or absent
    backendUp,  \* FALSE while every host operation raises
    admits,     \* history: the times (ticks) of the admitted checks, per state key
    last,       \* history: the last call and what it returned
    calls,      \* the check calls in flight: each one's position and locals
    written     \* history: per key, the last set or delete a caller made

vars == <<now, cfg, host, backendUp, admits, last, calls, written>>

-----------------------------------------------------------------------------
(* Arithmetic *)

Min(a, b) == IF a <= b THEN a ELSE b
Max(a, b) == IF a >= b THEN a ELSE b

\* a faulty variant of IntTrunc: floor instead of truncation
IntFloor(n, d) == n \div d

\* int(n/d) of Python for d > 0: truncation towards zero
IntTrunc(n, d) == IF n >= 0 THEN n \div d ELSE -((-n) \div d)

\* int(time.time()): whole seconds of a tick count
Seconds(t) == t \div TicksPerSec

RECURSIVE SelectGreaterEq(_, _)
\* a faulty variant of SelectGreater: a sample exactly window_size old is kept
SelectGreaterEq(requests, window_start) ==
    IF requests = <<>> THEN <<>>
    ELSE LET rest == SelectGreaterEq(Tail(requests), window_start)
         IN  IF Head(requests) >= window_start THEN <<Head(requests)>> \o rest ELSE rest

RECURSIVE SelectGreater(_, _)
\* [t for t in requests if t > window_start]
SelectGreater(requests, window_start) ==
    IF requests = <<>> THEN <<>>
    ELSE LET rest == SelectGreater(Tail(requests), window_start)
         IN  IF Head(requests) > window_start THEN <<Head(requests)>> \o rest ELSE rest

-----------------------------------------------------------------------------
(* Constants of RateLimiterAlgorithm *)

KEY_PREFIX == "safety_chat:rate_limiter"
TOKEN_BUCKET_ALGORITHM == "token_bucket"
FIXED_WINDOW_ALGORITHM == "fixed_window"
SLIDING_WINDOW_ALGORITHM == "sliding_window"
LEAKY_BUCKET_ALGORITHM == "leaky_bucket"
MULTIPLE_BUCKETS_ALGORITHM == "multiple_buckets"
ALGORITHM_MAP == {TOKEN_BUCKET_ALGORITHM, FIXED_WINDOW_ALGORITHM, SLIDING_WINDOW_ALGORITHM,
                  LEAKY_BUCKET_ALGORITHM, MULTIPLE_BUCKETS_ALGORITHM}

RATE_LIMIT_OK == "rate_ok"
RATE_LIMIT_NO_TOKENS == "rate_no_tokens"
RATE_LIMIT_MAX_REQUESTS == "rate_max_req"
RATE_LIMIT_QUEUE_FULL == "rate_queue_full"
RATE_LIMIT_WINDOW_LIMIT == "rate_window"
RATE_LIMIT_MULTIPLE == "rate_multi"

TRUE_STRING == "true"
FALSE_STRING == "false"

\* Python's None
None == [tag |-> "None"]

-----------------------------------------------------------------------------
(* Denial texts *)

\* a faulty variant of format_time_duration: the unit changes one second late
format_time_duration_late(seconds, lang) ==
    IF lang = "cn"
    THEN IF seconds <= 60 THEN <<seconds, "cn_second">>
         ELSE IF seconds <= 3600 THEN <<seconds \div 60, "cn_minute">>
         ELSE IF seconds <= 86400 THEN <<seconds \div 3600, "cn_hour">>
         ELSE <<seconds \div 86400, "cn_day">>
    ELSE IF seconds <= 60 THEN <<seconds, IF seconds = 1 THEN "second" ELSE "seconds">>
         ELSE IF seconds <= 3600
              THEN <<seconds \div 60, IF seconds \div 60 = 1 THEN "minute" ELSE "minutes">>
         ELSE IF seconds <= 86400
              THEN <<seconds \div 3600, IF seconds \div 3600 = 1 THEN "hour" ELSE "hours">>
         ELSE <<seconds \div 86400, IF seconds \div 86400 = 1 THEN "day" ELSE "days">>

\* format_time_duration(seconds, lang): <<value, unit>>; the Chinese units are
\* written cn_second, cn_minute, cn_hour, cn_day
format_time_duration(seconds, lang) ==
    IF lang = "cn"
    THEN IF seconds < 60 THEN <<seconds, "cn_second">>
         ELSE IF seconds < 3600 THEN <<seconds \div 60, "cn_minute">>
         ELSE IF seconds < 86400 THEN <<seconds \div 3600, "cn_hour">>
         ELSE <<seconds \div 86400, "cn_day">>
    ELSE IF seconds < 60 THEN <<seconds, IF seconds = 1 THEN "second" ELSE "seconds">>
         ELSE IF seconds < 3600
              THEN <<seconds \div 60, IF seconds \div 60 = 1 THEN "minute" ELSE "minutes">>
         ELSE IF seconds < 86400
              THEN <<seconds \div 3600, IF seconds \div 3600 = 1 THEN "hour" ELSE "hours">>
         ELSE <<seconds \div 86400, IF seconds \div 86400 = 1 THEN "day" ELSE "days">>

\* the empty text ""
EmptyText == <<>>

\* _format_reason(template, template_cn, **kwargs): the pair (reason, reason_cn).
\* A text is the template's name, the keyword arguments and the formatted
\* wait time; args is never empty at a call site of the source.
FormatReason(template, args, wait_time) ==
    [en |-> <<template, "en", args, format_time_duration(wait_time, "en")>>,
     cn |-> <<template, "cn", args, format_time_duration(wait_time, "cn")>>]

\* a faulty variant of BuildResponse: the reason code is always rate_ok
BuildResponseOk(allowed, remaining, reset_time, reason, reason_cn, reason_code) ==
    [allowed |-> IF allowed THEN TRUE_STRING ELSE FALSE_STRING,
     remaining |-> remaining,
     reset_time |-> reset_time,
     reason |-> reason,
     reason_cn |-> reason_cn,
     reason_code |-> RATE_LIMIT_OK]

\* _build_response
BuildResponse(allowed, remaining, reset_time, reason, reason_cn, reason_code) ==
    [allowed |-> IF allowed THEN TRUE_STRING ELSE FALSE_STRING,
     remaining |-> remaining,
     reset_time |-> reset_time,
     reason |-> reason,
     reason_cn |-> reason_cn,
     reason_code |-> reason_code]

-----------------------------------------------------------------------------
(* storage/storage.py: PluginPersistentStorage over the host's session       *)
(* storage.  host[k] is Absent or the bytes written by the last host set.    *)

Absent == [present |-> FALSE]

\* Storage.serialize: pickle.dumps
serialize(value) == [present |-> TRUE, pickle |-> value]

\* Storage.deserialize: pickle.loads
deserialize(data) == data.pickle

\* "expire_at" in value
HasExpireAt(value) == "expire_at" \in DOMAIN value

\* a faulty variant of Expired: the entry lives through its last instant
ExpiredStrict(value, t) == value.expire_at < t

\* value["expire_at"] <= time.time()
Expired(value, t) == value.expire_at <= t

\* a faulty variant of StorageGet: the wrapper is returned as it is stored
StorageGetWrapped(up, h, k, t) ==
    IF ~up THEN None
    ELSE IF ~h[k].present THEN None
    ELSE LET value == deserialize(h[k])
         IN  IF HasExpireAt(value) /\ Expired(value, t) THEN None ELSE value

\* PluginPersistentStorage.get: the value returned
StorageGet(up, h, k, t) ==
    IF ~up THEN None
    ELSE IF ~h[k].present THEN None
    ELSE LET value == deserialize(h[k])
         IN  IF HasExpireAt(value)
             THEN IF Expired(value, t) THEN None ELSE value.data
             ELSE value

\* a faulty variant of StorageGetEffect: every read of a wrapped entry removes it
StorageGetEffectEager(up, h, k, t) ==
    IF up /\ h[k].present /\ HasExpireAt(deserialize(h[k]))
    THEN [h EXCEPT ![k] = Absent]
    ELSE h

\* PluginPersistentStorage.get: the host store it leaves (an expired entry is deleted)
StorageGetEffect(up, h, k, t) ==
    IF up /\ h[k].present /\ HasExpireAt(deserialize(h[k])) /\ Expired(deserialize(h[k]), t)
    THEN [h EXCEPT ![k] = Absent]
    ELSE h

\* PluginPersistentStorage.set(key, value, expire): the host store it leaves.
\* expire is in whole seconds; "if expire:" is false for None and for 0, and
\* both are written 0 here
StorageSet(up, h, k, value, expire, t) ==
    IF ~up THEN h
    ELSE IF expire # 0
         THEN [h EXCEPT ![k] = serialize([data |-> value,
                                          expire_at |-> t + expire * TicksPerSec])]
         ELSE [h EXCEPT ![k] = serialize(value)]

\* PluginPersistentStorage.delete
StorageDelete(up, h, k) == IF up THEN [h EXCEPT ![k] = Absent] ELSE h

-----------------------------------------------------------------------------
(* utils/rate_limiter_algorithms.py.  c is the algorithm object's parameters *)
(* (rate in units per tick, capacity in tokens, max_requests, window_size in *)
(* seconds), got is what storage.get returned, t is time.time() in ticks.    *)

\* self.capacity in units
Cap(c) == c.capacity * Unit

\* the divisor of x/self.rate when x is in units and the quotient in seconds
RateDiv(c) == c.rate * TicksPerSec

\* self.window_size in ticks
Win(c) == c.window_size * TicksPerSec

(* TokenBucketAlgorithm *)

\* a faulty variant of TokenBucketData: a fresh bucket starts empty
TokenBucketDataEmpty(c, got, t) ==
    IF got = None THEN [tokens |-> 0, last_refill |-> t] ELSE got

\* storage.get(storage_key) or {tokens: capacity, last_refill: now}
TokenBucketData(c, got, t) ==
    IF got = None THEN [tokens |-> Cap(c), last_refill |-> t] ELSE got

\* a faulty variant of TokenBucketRefill: the refill is not capped
TokenBucketRefillUncapped(c, data, t) ==
    data.tokens + (t - data.last_refill) * c.rate

\* min(self.capacity, data[tokens] + time_passed * self.rate)
TokenBucketRefill(c, data, t) ==
    Min(Cap(c), data.tokens + (t - data.last_refill) * c.rate)

\* TokenBucketAlgorithm.get_status
TokenBucketStatus(c, got, t) ==
    LET tokens == TokenBucketRefill(c, TokenBucketData(c, got, t), t)
        allowed == tokens >= Unit
        wait_time == IF tokens < Unit THEN IntTrunc(Unit - tokens, RateDiv(c)) ELSE 0
        text == FormatReason("TOKEN_BUCKET_REASON_TEMPLATE", [rate |-> c.rate], wait_time)
    IN  BuildResponse(allowed,
                      IntTrunc(tokens, Unit),
                      IntTrunc(t * c.rate + Unit, RateDiv(c)),
                      IF allowed THEN EmptyText ELSE text.en,
                      IF allowed THEN EmptyText ELSE text.cn,
                      IF allowed THEN RATE_LIMIT_OK ELSE RATE_LIMIT_NO_TOKENS)

\* a faulty variant of TokenBucketNewData: the token is not consumed
TokenBucketNewDataKeep(c, got, t) ==
    [tokens |-> TokenBucketRefill(c, TokenBucketData(c, got, t), t),
     last_refill |-> t]

\* TokenBucketAlgorithm.check: new_data of an admitted request
TokenBucketNewData(c, got, t) ==
    [tokens |-> TokenBucketRefill(c, TokenBucketData(c, got, t), t) - Unit,
     last_refill |-> t]

\* TokenBucketAlgorithm.check: expire = int(1 / self.rate)
TokenBucketExpire(c) == IntTrunc(Unit, RateDiv(c))

(* FixedWindowAlgorithm *)

\* window_start = now - (now % self.window_size), now = int(time.time())
WindowStart(c, t) == Seconds(t) - (Seconds(t) % c.window_size)

\* a faulty variant of FixedWindowCount: the count of an old window is kept
FixedWindowCountStale(c, got, t) ==
    IF got = None THEN 0 ELSE got.count

\* FixedWindowAlgorithm.get_status: count
FixedWindowCount(c, got, t) ==
    IF got = None THEN 0
    ELSE IF got.start # WindowStart(c, t) THEN 0 ELSE got.count

\* a faulty variant of FixedWindowAllowed: off by one
FixedWindowAllowedLeq(c, count) == count <= c.max_requests

\* allowed = count < self.max_requests
FixedWindowAllowed(c, count) == count < c.max_requests

\* FixedWindowAlgorithm.get_status
FixedWindowStatus(c, got, t) ==
    LET count == FixedWindowCount(c, got, t)
        allowed == FixedWindowAllowed(c, count)
        wait_time == WindowStart(c, t) + c.window_size - Seconds(t)
        text == FormatReason("FIXED_WINDOW_REASON_TEMPLATE",
                             [max_requests |-> c.max_requests, count |-> count,
                              time_en |-> format_time_duration(c.window_size, "en"),
                              time_cn |-> format_time_duration(c.window_size, "cn")],
                             wait_time)
    IN  BuildResponse(allowed,
                      Max(0, c.max_requests - count),
                      WindowStart(c, t) + c.window_size,
                      IF allowed THEN EmptyText ELSE text.en,
                      IF allowed THEN EmptyText ELSE text.cn,
                      IF allowed THEN RATE_LIMIT_OK ELSE RATE_LIMIT_MAX_REQUESTS)

\* a faulty variant of FixedWindowNewData: the count is not incremented
FixedWindowNewDataKeep(c, got, t) ==
    LET fresh == [start |-> WindowStart(c, t), count |-> 0]
    IN  IF got = None THEN fresh
        ELSE IF got.start # WindowStart(c, t) THEN fresh ELSE got

\* FixedWindowAlgorithm.check: the data written by an admitted request
FixedWindowNewData(c, got, t) ==
    LET fresh == [start |-> WindowStart(c, t), count |-> 0]
        data == IF got = None THEN fresh
                ELSE IF got.start # WindowStart(c, t) THEN fresh ELSE got
    IN  [start |-> data.start, count |-> data.count + 1]

\* a faulty variant of FixedWindowExpire: the time to the next boundary, zero on it
FixedWindowExpireZero(c, t) ==
    (c.window_size - (Seconds(t) % c.window_size)) % c.window_size

\* FixedWindowAlgorithm.check: expire = window_start + self.window_size - now
FixedWindowExpire(c, t) == WindowStart(c, t) + c.window_size - Seconds(t)

(* SlidingWindowAlgorithm *)

\* the requests of storage.get(storage_key) or {requests: []}, purged
SlidingWindowRequests(c, got, t) ==
    SelectGreater(IF got = None THEN <<>> ELSE got.requests, t - Win(c))

\* a faulty variant of SlidingWindowAllowed: off by one
SlidingWindowAllowedLeq(c, requests) == Len(requests) <= c.max_requests

\* allowed = len(requests) < self.max_requests
SlidingWindowAllowed(c, requests) == Len(requests) < c.max_requests

\* SlidingWindowAlgorithm.get_status
SlidingWindowStatus(c, got, t) ==
    LET requests == SlidingWindowRequests(c, got, t)
        allowed == SlidingWindowAllowed(c, requests)
        wait_time == IF requests # <<>>
                     THEN IntTrunc(requests[1] + Win(c) - t, TicksPerSec) ELSE 0
        text == FormatReason("SLIDING_WINDOW_REASON_TEMPLATE",
                             [max_requests |-> c.max_requests, count |-> Len(requests),
                              time_en |-> format_time_duration(c.window_size, "en"),
                              time_cn |-> format_time_duration(c.window_size, "cn")],
                             wait_time)
    IN  BuildResponse(allowed,
                      Max(0, c.max_requests - Len(requests)),
                      IF requests # <<>>
                      THEN IntTrunc(requests[1] + Win(c), TicksPerSec)
                      ELSE IntTrunc(t + Win(c), TicksPerSec),
                      IF allowed THEN EmptyText ELSE text.en,
                      IF allowed THEN EmptyText ELSE text.cn,
                      IF allowed THEN RATE_LIMIT_OK ELSE RATE_LIMIT_WINDOW_LIMIT)


\* SlidingWindowAlgorithm.check: the data written by an admitted request
SlidingWindowNewData(c, got, t) ==
    [requests |-> Append(SlidingWindowRequests(c, got, t), t)]

(* LeakyBucketAlgorithm *)

\* storage.get(storage_key) or {water: 0, last_leak: now}
LeakyBucketData(c, got, t) ==
    IF got = None THEN [water |-> 0, last_leak |-> t] ELSE got

\* a faulty variant of LeakyBucketLeak: the bucket does not leak
LeakyBucketLeakNone(c, data, t) ==
    data.water

\* max(0, data[water] - time_passed * self.rate)
LeakyBucketLeak(c, data, t) ==
    Max(0, data.water - (t - data.last_leak) * c.rate)

\* allowed = water < self.capacity
LeakyBucketAllowed(c, water) == water < Cap(c)

\* LeakyBucketAlgorithm.get_status
LeakyBucketStatus(c, got, t) ==
    LET water == LeakyBucketLeak(c, LeakyBucketData(c, got, t), t)
        allowed == LeakyBucketAllowed(c, water)
        wait_time == IF water >= Cap(c)
                     THEN IntTrunc(water - Cap(c) + Unit, RateDiv(c)) ELSE 0
        text == FormatReason("LEAKY_BUCKET_REASON_TEMPLATE", [rate |-> c.rate], wait_time)
    IN  BuildResponse(allowed,
                      IntTrunc(Cap(c) - water, Unit),
                      IntTrunc(t * c.rate + Unit, RateDiv(c)),
                      IF allowed THEN EmptyText ELSE text.en,
                      IF allowed THEN EmptyText ELSE text.cn,
                      IF allowed THEN RATE_LIMIT_OK ELSE RATE_LIMIT_QUEUE_FULL)

\* a faulty variant of LeakyBucketNewData: last_leak is not written with water
LeakyBucketNewDataPartial(c, got, t) ==
    [water |-> LeakyBucketLeak(c, LeakyBucketData(c, got, t), t) + Unit,
     last_leak |-> LeakyBucketData(c, got, t).last_leak]

\* LeakyBucketAlgorithm.check: new_data of an admitted request
LeakyBucketNewData(c, got, t) ==
    [water |-> LeakyBucketLeak(c, LeakyBucketData(c, got, t), t) + Unit,
     last_leak |-> t]

\* LeakyBucketAlgorithm.check: expire = int(water / self.rate)
LeakyBucketExpire(c, new_data) == IntTrunc(new_data.water, RateDiv(c))

(* MultipleBucketsAlgorithm *)

\* storage.get(storage_key) or the fresh composite state
MultipleBucketsData(c, got, t) ==
    IF got = None
    THEN [tokens |-> Cap(c), last_refill |-> t, requests |-> <<>>,
          water |-> 0, last_leak |-> t]
    ELSE got

\* reset_times, each multiplied by self.rate * TicksPerSec (seconds -> RateDiv)
MultipleBucketsResetTimes(c, tokens, requests, water, t) ==
    (IF tokens < Cap(c) THEN {t * c.rate + Cap(c) - tokens} ELSE {})
    \cup (IF requests # <<>> THEN {(requests[1] + Win(c)) * c.rate} ELSE {})
    \cup (IF water > 0 THEN {t * c.rate + water} ELSE {})

\* reset_time = min(reset_times) if reset_times else now + self.window_size,
\* multiplied by self.rate * TicksPerSec
MultipleBucketsResetTime(c, tokens, requests, water, t) ==
    LET reset_times == MultipleBucketsResetTimes(c, tokens, requests, water, t)
    IN  IF reset_times # {}
        THEN CHOOSE x \in reset_times : \A y \in reset_times : x <= y
        ELSE (t + Win(c)) * c.rate

\* a faulty variant of MultipleBucketsReason: the sliding window is asked first
MultipleBucketsReasonSlidingFirst(c, tokens, requests, water, reset_time, t) ==
    IF Len(requests) >= c.max_requests
    THEN FormatReason("SLIDING_WINDOW_REASON_TEMPLATE",
                      [max_requests |-> c.max_requests, count |-> Len(requests),
                       time_en |-> format_time_duration(c.window_size, "en"),
                       time_cn |-> format_time_duration(c.window_size, "cn")],
                      IntTrunc(requests[1] + Win(c) - t, TicksPerSec))
    ELSE IF tokens < Unit
    THEN FormatReason("TOKEN_BUCKET_REASON_TEMPLATE", [rate |-> c.rate],
                      IntTrunc(Unit - tokens, RateDiv(c)))
    ELSE IF water >= Cap(c)
    THEN FormatReason("LEAKY_BUCKET_REASON_TEMPLATE", [rate |-> c.rate],
                      IntTrunc(water - Cap(c) + Unit, RateDiv(c)))
    ELSE FormatReason("MULTIPLE_BUCKETS_REASON_TEMPLATE", [none |-> 0],
                      IntTrunc(reset_time - t * c.rate, RateDiv(c)))

\* MultipleBucketsAlgorithm.get_status: the reason texts of a denial
MultipleBucketsReason(c, tokens, requests, water, reset_time, t) ==
    IF tokens < Unit
    THEN FormatReason("TOKEN_BUCKET_REASON_TEMPLATE", [rate |-> c.rate],
                      IntTrunc(Unit - tokens, RateDiv(c)))
    ELSE IF Len(requests) >= c.max_requests
    THEN FormatReason("SLIDING_WINDOW_REASON_TEMPLATE",
                      [max_requests |-> c.max_requests, count |-> Len(requests),
                       time_en |-> format_time_duration(c.window_size, "en"),
                       time_cn |-> format_time_duration(c.window_size, "cn")],
                      IntTrunc(requests[1] + Win(c) - t, TicksPerSec))
    ELSE IF water >= Cap(c)
    THEN FormatReason("LEAKY_BUCKET_REASON_TEMPLATE", [rate |-> c.rate],
                      IntTrunc(water - Cap(c) + Unit, RateDiv(c)))
    ELSE FormatReason("MULTIPLE_BUCKETS_REASON_TEMPLATE", [none |-> 0],
                      IntTrunc(reset_time - t * c.rate, RateDiv(c)))

\* MultipleBucketsAlgorithm.get_status
MultipleBucketsStatus(c, got, t) ==
    LET data == MultipleBucketsData(c, got, t)
        tokens == Min(Cap(c), data.tokens + (t - data.last_refill) * c.rate)
        requests == SelectGreater(data.requests, t - Win(c))
        water == Max(0, data.water - (t - data.last_leak) * c.rate)
        reset_time == MultipleBucketsResetTime(c, tokens, requests, water, t)
        allowed == tokens >= Unit /\ Len(requests) < c.max_requests /\ water < Cap(c)
        text == MultipleBucketsReason(c, tokens, requests, water, reset_time, t)
    IN  BuildResponse(allowed,
                      Min(IntTrunc(tokens, Unit),
                          Min(c.max_requests - Len(requests),
                              IntTrunc(Cap(c) - water, Unit))),
                      IntTrunc(reset_time, RateDiv(c)),
                      IF allowed THEN EmptyText ELSE text.en,
                      IF allowed THEN EmptyText ELSE text.cn,
                      IF allowed THEN RATE_LIMIT_OK ELSE RATE_LIMIT_MULTIPLE)

\* a faulty variant of MultipleBucketsNewData: the water of the admitted
\* request is not added
MultipleBucketsNewDataDry(c, got, t) ==
    LET data == MultipleBucketsData(c, got, t)
    IN  [tokens |-> Min(Cap(c), data.tokens + (t - data.last_refill) * c.rate) - Unit,
         last_refill |-> t,
         requests |-> Append(SelectGreater(data.requests, t - Win(c)), t),
         water |-> Max(0, data.water - (t - data.last_leak) * c.rate),
         last_leak |-> t]

\* MultipleBucketsAlgorithm.check: new_data of an admitted request
MultipleBucketsNewData(c, got, t) ==
    LET data == MultipleBucketsData(c, got, t)
    IN  [tokens |-> Min(Cap(c), data.tokens + (t - data.last_refill) * c.rate) - Unit,
         last_refill |-> t,
         requests |-> Append(SelectGreater(data.requests, t - Win(c)), t),
         water |-> Max(0, data.water - (t - data.last_leak) * c.rate) + Unit,
         last_leak |-> t]

(* The algorithm object as a tagged variant *)

\* algorithm.get_status(key), given what its storage.get returned
GetStatus(c, got, t) ==
    CASE c.algorithm_type = TOKEN_BUCKET_ALGORITHM -> TokenBucketStatus(c, got, t)
      [] c.algorithm_type = FIXED_WINDOW_ALGORITHM -> FixedWindowStatus(c, got, t)
      [] c.algorithm_type = SLIDING_WINDOW_ALGORITHM -> SlidingWindowStatus(c, got, t)
      [] c.algorithm_type = LEAKY_BUCKET_ALGORITHM -> LeakyBucketStatus(c, got, t)
      [] c.algorithm_type = MULTIPLE_BUCKETS_ALGORITHM -> MultipleBucketsStatus(c, got, t)

\* the state an admitting check passes to storage.set
NewData(c, got, t) ==
    CASE c.algorithm_type = TOKEN_BUCKET_ALGORITHM -> TokenBucketNewData(c, got, t)
      [] c.algorithm_type = FIXED_WINDOW_ALGORITHM -> FixedWindowNewData(c, got, t)
      [] c.algorithm_type = SLIDING_WINDOW_ALGORITHM -> SlidingWindowNewData(c, got, t)
      [] c.algorithm_type = LEAKY_BUCKET_ALGORITHM -> LeakyBucketNewData(c, got, t)
      [] c.algorithm_type = MULTIPLE_BUCKETS_ALGORITHM -> MultipleBucketsNewData(c, got, t)

\* a faulty variant of Expire: the sliding window state expires one second
\* before the window has passed
ExpireEarly(c, new_data, t) ==
    CASE c.algorithm_type = TOKEN_BUCKET_ALGORITHM -> TokenBucketExpire(c)
      [] c.algorithm_type = FIXED_WINDOW_ALGORITHM -> FixedWindowExpire(c, t)
      [] c.algorithm_type = SLIDING_WINDOW_ALGORITHM -> c.window_size - 1
      [] c.algorithm_type = LEAKY_BUCKET_ALGORITHM -> LeakyBucketExpire(c, new_data)
      [] c.algorithm_type = MULTIPLE_BUCKETS_ALGORITHM -> c.window_size

\* the expire (seconds) an admitting check passes to storage.set
Expire(c, new_data, t) ==
    CASE c.algorithm_type = TOKEN_BUCKET_ALGORITHM -> TokenBucketExpire(c)
      [] c.algorithm_type = FIXED_WINDOW_ALGORITHM -> FixedWindowExpire(c, t)
      [] c.algorithm_type = SLIDING_WINDOW_ALGORITHM -> c.window_size
      [] c.algorithm_type = LEAKY_BUCKET_ALGORITHM -> LeakyBucketExpire(c, new_data)
      [] c.algorithm_type = MULTIPLE_BUCKETS_ALGORITHM -> c.window_size

\* storage_key = f"{KEY_PREFIX}:{ALGORITHM}:{key}"
StorageKey(c, key) == <<KEY_PREFIX, c.algorithm_type, key>>

\* get_status(key): the verdict
StatusVerdict(c, up, h, key, t) == GetStatus(c, StorageGet(up, h, StorageKey(c, key), t), t)

\* get_status(key): the host store it leaves
StatusEffect(c, up, h, key, t) == StorageGetEffect(up, h, StorageKey(c, key), t)

\* check(key): the verdict, which is the status read at its start
CheckVerdict(c, up, h, key, t) == StatusVerdict(c, up, h, key, t)

\* a faulty variant of CheckEffect: the state is written whatever the verdict
CheckEffectAlways(c, up, h, key, t) ==
    LET k == StorageKey(c, key)
        h1 == StatusEffect(c, up, h, key, t)
        got == StorageGet(up, h1, k, t)
        new_data == NewData(c, got, t)
    IN  StorageSet(up, StorageGetEffect(up, h1, k, t), k, new_data, Expire(c, new_data, t), t)

\* check(key): the host store it leaves: the status read, then for an allowed
\* request the second read and the write
CheckEffect(c, up, h, key, t) ==
    LET k == StorageKey(c, key)
        h1 == StatusEffect(c, up, h, key, t)
    IN  IF CheckVerdict(c, up, h, key, t).allowed = TRUE_STRING
        THEN LET got == StorageGet(up, h1, k, t)
                 h2 == StorageGetEffect(up, h1, k, t)
                 new_data == NewData(c, got, t)
             IN  StorageSet(up, h2, k, new_data, Expire(c, new_data, t), t)
        ELSE h1

-----------------------------------------------------------------------------
(* The state machine *)

\* rates, in units per tick (with Unit = 4 and TicksPerSec = 2: 0.5, 1 and 2
\* tokens per second)
Rates == {1, 2, 4}
Capacities == {1, 2, 3}
MaxRequests == {1, 2}
WindowSizes == {1, 2}

\* the parameters of an algorithm object; a parameter its class does not
\* have is written 0
Params(a, r, cp, m, w) ==
    [algorithm_type |-> a, rate |-> r, capacity |-> cp, max_requests |-> m, window_size |-> w]

Configs ==
    {Params(a, r, cp, 0, 0) :
        a \in {TOKEN_BUCKET_ALGORITHM, LEAKY_BUCKET_ALGORITHM}, r \in Rates, cp \in Capacities}
    \cup {Params(a, 0, 0, m, w) :
        a \in {FIXED_WINDOW_ALGORITHM, SLIDING_WINDOW_ALGORITHM},
        m \in MaxRequests, w \in WindowSizes}
    \cup {Params(MULTIPLE_BUCKETS_ALGORITHM, r, cp, m, w) :
        r \in {1, 2}, cp \in {1, 2}, m \in MaxRequests, w \in WindowSizes}

Users == {"u1"}
Actions == {"a1"}
UniqueIds == {"id1", "id2"}

\* key = f"{user_id}:{action_type}"
CompositeKey(user_id, action_type, unique_id) == <<user_id, action_type>>

CompositeKeys == {CompositeKey(u, a, i) : u \in Users, a \in Actions, i \in UniqueIds}

\* (user_id, action_type, unique_id) of a request
Triples == Users \X Actions \X UniqueIds

\* the key the tools pass to the algorithm for a triple
KeyOf(tr) == CompositeKey(tr[1], tr[2], tr[3])

\* the one caller of the algorithm-level calls
T0 == <<"u1", "a1", "id1">>

CONFIG_KEY_PREFIX == "safety_chat:rate_limiter:config"

AllKeys ==
    {<<KEY_PREFIX, a, k>> : a \in ALGORITHM_MAP, k \in CompositeKeys}
    \cup {<<i>> : i \in UniqueIds}
    \cup {<<CONFIG_KEY_PREFIX, i>> : i \in UniqueIds}

\* the two callers whose check calls may overlap
Procs == {"p1", "p2"}

\* a caller that has not called yet
Idle == [pc |-> "idle"]

Init ==
    /\ now = 0
    /\ cfg \in Configs
    /\ host = [k \in AllKeys |-> Absent]
    /\ backendUp = TRUE
    /\ admits = [tr \in Triples |-> <<>>]
    /\ last = [op |-> "none", triple |-> T0, at |-> 0, up |-> TRUE,
               pre |-> Absent, verdict |-> None]
    /\ calls = [p \in Procs |-> Idle]
    /\ written = [k \in AllKeys |-> Absent]

\* time passes
Tick ==
    /\ now < MaxTime
    /\ now' = now + 1
    /\ UNCHANGED <<cfg, host, backendUp, admits, last, calls, written>>

\* algorithm.check(key) for the caller tr; last.pre is the host entry of the
\* state key before the call
CheckCall(tr) ==
    LET verdict == CheckVerdict(cfg, backendUp, host, KeyOf(tr), now)
    IN  /\ host' = CheckEffect(cfg, backendUp, host, KeyOf(tr), now)
        /\ admits' = IF verdict.allowed = TRUE_STRING
                      THEN [admits EXCEPT ![tr] = Append(@, now)]
                      ELSE admits
        /\ last' = [op |-> "check", triple |-> tr, at |-> now, up |-> backendUp,
                    pre |-> host[StorageKey(cfg, KeyOf(tr))], verdict |-> verdict]
        /\ UNCHANGED <<now, cfg, backendUp, calls, written>>

\* algorithm.get_status(key) for the caller tr
StatusCall(tr) ==
    /\ host' = StatusEffect(cfg, backendUp, host, KeyOf(tr), now)
    /\ last' = [op |-> "status", triple |-> tr, at |-> now, up |-> backendUp,
                pre |-> host[StorageKey(cfg, KeyOf(tr))],
                verdict |-> StatusVerdict(cfg, backendUp, host, KeyOf(tr), now)]
    /\ UNCHANGED <<now, cfg, backendUp, admits, calls, written>>

Check == CheckCall(T0)

Status == StatusCall(T0)

Next == Tick \/ Check \/ Status

Spec == Init /\ [][Next]_vars

-----------------------------------------------------------------------------
(* The store fails: every host operation raises, PluginPersistentStorage     *)
(* swallows the exception (get returns None, set and delete do nothing).     *)

\* the most admissions the history keeps while the store is down, when every
\* check is admitted, and the last tick of the outage runs
MaxAdmits == 3
OutageMaxTime == 3

BackendFail ==
    /\ backendUp
    /\ backendUp' = FALSE
    /\ UNCHANGED <<now, cfg, host, admits, last, calls, written>>

BackendRecover ==
    /\ ~backendUp
    /\ backendUp' = TRUE
    /\ UNCHANGED <<now, cfg, host, admits, last, calls, written>>

OutageCheck == Len(admits[T0]) < MaxAdmits /\ CheckCall(T0)

OutageTick == now < OutageMaxTime /\ Tick

NextOutage == OutageTick \/ OutageCheck \/ Status \/ BackendFail \/ BackendRecover

SpecOutage == Init /\ [][NextOutage]_vars

-----------------------------------------------------------------------------
(* tools/rate_limiter_check.py and tools/rate_limiter_status.py.  A request  *)
(* is the parameters dict; a string parameter that is missing is "".  A      *)
(* check request either gives its four numeric parameters, with the values   *)
(* of cfg, or omits them all.  The tool actions keep no history in admits.   *)

\* the None that parameters.get returns for an omitted numeric parameter
NoneNum == -1

CheckRequests ==
    [user_id : Users \cup {""}, action_type : Actions \cup {""}, unique_id : UniqueIds,
     algorithm_type : {cfg.algorithm_type, "unknown"}, numeric : {"given", "omitted"}]

StatusRequests == [user_id : Users \cup {""}, unique_id : UniqueIds \cup {""}]

TextMessage(text) == [kind |-> "text", text |-> text]

\* Storage.PLUGIN_STORAGE_TYPE, the storage selection that keeps the host store
PLUGIN_STORAGE_TYPE == "plugin_storage"

\* credentials.get(Storage.STORAGE_TYPE_KEY, Storage.PLUGIN_STORAGE_TYPE): the
\* credentials name no storage type
StorageType == PLUGIN_STORAGE_TYPE

\* a faulty variant of CheckValidate: the algorithm type is not validated
CheckValidateAnyAlgorithm(req) ==
    IF req.user_id = "" THEN "Missing required parameter: user_id"
    ELSE IF req.action_type = "" THEN "Missing required parameter: action_type"
    ELSE ""

\* RateLimiterCheckTool.validate_parameters: the error raised, "" when none
CheckValidate(req) ==
    IF req.user_id = "" THEN "Missing required parameter: user_id"
    ELSE IF req.action_type = "" THEN "Missing required parameter: action_type"
    ELSE IF req.algorithm_type \notin ALGORITHM_MAP THEN "Unsupported algorithm type"
    ELSE ""

\* parameters.get(key) of a numeric parameter
Num(req, key) == IF req.numeric = "given" THEN cfg[key] ELSE NoneNum

\* the configuration record a check stores
ConfigOf(req) ==
    [action_type |-> req.action_type, algorithm_type |-> req.algorithm_type,
     rate |-> Num(req, "rate"), capacity |-> Num(req, "capacity"),
     max_requests |-> Num(req, "max_requests"), window_size |-> Num(req, "window_size")]

\* RateLimiterCheckTool._invoke: the key of the configuration record
CheckConfigKey(unique_id) == <<unique_id>>

\* RateLimiterCheckTool._invoke: the host store after the configuration step
CheckConfigEffect(up, h, req, t) ==
    LET k == CheckConfigKey(req.unique_id)
    IN  IF StorageGet(up, h, k, t) = None
        THEN StorageSet(up, StorageGetEffect(up, h, k, t), k, ConfigOf(req), 0, t)
        ELSE StorageGetEffect(up, h, k, t)

\* RateLimiterCheckTool.ALGORITHM_PARAMS, in the source's units
ALGORITHM_PARAMS ==
    [a \in ALGORITHM_MAP |->
        CASE a \in {TOKEN_BUCKET_ALGORITHM, LEAKY_BUCKET_ALGORITHM} ->
                 [rate |-> 10, capacity |-> 100]
          [] a \in {FIXED_WINDOW_ALGORITHM, SLIDING_WINDOW_ALGORITHM} ->
                 [max_requests |-> 100, window_size |-> 60]
          [] a = MULTIPLE_BUCKETS_ALGORITHM ->
                 [rate |-> 10, capacity |-> 100, max_requests |-> 100, window_size |-> 60]]

\* the keyword arguments _invoke passes to get_algorithm: all four, always
Kwargs(req) ==
    [rate |-> Num(req, "rate"), capacity |-> Num(req, "capacity"),
     max_requests |-> Num(req, "max_requests"), window_size |-> Num(req, "window_size")]

\* RateLimiterCheckTool._get_algorithm_params: params[key] =
\* kwargs.get(key, credentials.get(key, params[key])); the credentials hold
\* no algorithm parameter
GetAlgorithmParams(algorithm_type, kwargs) ==
    [key \in DOMAIN ALGORITHM_PARAMS[algorithm_type] |->
        IF key \in DOMAIN kwargs THEN kwargs[key]
        ELSE ALGORITHM_PARAMS[algorithm_type][key]]

\* the algorithm object constructed from params
AlgorithmOf(algorithm_type, params) ==
    LET get(key) == IF key \in DOMAIN params THEN params[key] ELSE 0
    IN  Params(algorithm_type, get("rate"), get("capacity"),
               get("max_requests"), get("window_size"))

\* a parameter of the algorithm object is None: its arithmetic raises TypeError
HasNoneParam(params) == \E key \in DOMAIN params : params[key] = NoneNum

\* RateLimiterCheckTool._invoke.  With a None parameter get_status raises
\* TypeError after its storage.get, FixedWindowAlgorithm before it.
ToolCheck(req) ==
    LET tr == <<req.user_id, req.action_type, req.unique_id>>
        h1 == CheckConfigEffect(backendUp, host, req, now)
        params == GetAlgorithmParams(req.algorithm_type, Kwargs(req))
        c == AlgorithmOf(req.algorithm_type, params)
        result == CheckVerdict(c, backendUp, h1, KeyOf(tr), now)
        failed(h, text) ==
            /\ host' = h
            /\ last' = [op |-> "tool_check", triple |-> tr, at |-> now, up |-> backendUp,
                        pre |-> Absent, req |-> req,
                        verdict |-> TextMessage(<<"Execution failed", text>>)]
    IN  /\ now <= SvcMaxTime
        /\ IF CheckValidate(req) # ""
           THEN failed(host, CheckValidate(req))
           ELSE IF req.algorithm_type \notin ALGORITHM_MAP
           THEN failed(h1, "Unsupported algorithm type")
           ELSE IF HasNoneParam(params)
           THEN failed(IF req.algorithm_type = FIXED_WINDOW_ALGORITHM THEN h1
                       ELSE StatusEffect(c, backendUp, h1, KeyOf(tr), now),
                       "TypeError")
           ELSE /\ host' = CheckEffect(c, backendUp, h1, KeyOf(tr), now)
                /\ last' = [op |-> "tool_check", triple |-> tr, at |-> now, up |-> backendUp,
                            pre |-> Absent, req |-> req,
                            verdict |-> [kind |-> "variables",
                                         allowed |-> result.allowed,
                                         remaining |-> result.remaining,
                                         reset_time |-> result.reset_time]]
        /\ UNCHANGED <<now, cfg, backendUp, admits, calls, written>>

\* RateLimiterStatusTool.validate_parameters: the error raised, "" when none
StatusValidate(req) ==
    IF req.unique_id = "" THEN "Missing required parameter: unique_id"
    ELSE IF req.user_id = "" THEN "Missing required parameter: user_id"
    ELSE ""

\* a faulty variant of StatusConfigKey: the key the check tool writes
StatusConfigKeyRaw(unique_id) == <<unique_id>>

\* RateLimiterMixin.get_config: the key of the configuration record
StatusConfigKey(unique_id) == <<CONFIG_KEY_PREFIX, unique_id>>

\* RateLimiterStatusTool._invoke.  init_storage keeps the plugin store for
\* the plugin storage type.  get_algorithm passes rate, capacity,
\* max_requests and window_size to the constructor, which only
\* MultipleBucketsAlgorithm accepts: the other classes raise TypeError, and
\* so does the arithmetic of get_status on a None parameter.
ToolStatus(req) ==
    LET k == StatusConfigKey(req.unique_id)
        config == StorageGet(backendUp, host, k, now)
        h1 == StorageGetEffect(backendUp, host, k, now)
        c == Params(config.algorithm_type, config.rate, config.capacity,
                    config.max_requests, config.window_size)
        key == <<req.user_id, config.action_type>>
        rec(h, v) == /\ host' = h
                     /\ last' = [op |-> "tool_status",
                                 triple |-> <<req.user_id, "", req.unique_id>>,
                                 at |-> now, up |-> backendUp, pre |-> Absent,
                                 req |-> req, verdict |-> v]
    IN  /\ now <= SvcMaxTime
        /\ StorageType = PLUGIN_STORAGE_TYPE
        /\ IF StatusValidate(req) # ""
           THEN rec(host, TextMessage(<<"Execution failed", StatusValidate(req)>>))
           ELSE IF config = None
           THEN rec(h1, TextMessage(<<"No rate limit configuration found for unique_id",
                                      req.unique_id>>))
           ELSE IF config.algorithm_type # MULTIPLE_BUCKETS_ALGORITHM
           THEN rec(h1, TextMessage(<<"Execution failed", "TypeError">>))
           ELSE IF NoneNum \in {config.rate, config.capacity,
                                config.max_requests, config.window_size}
           THEN rec(StatusEffect(c, backendUp, h1, key, now),
                    TextMessage(<<"Execution failed", "TypeError">>))
           ELSE rec(StatusEffect(c, backendUp, h1, key, now),
                    [kind |-> "variables", config |-> config,
                     result |-> StatusVerdict(c, backendUp, h1, key, now)])
        /\ UNCHANGED <<now, cfg, backendUp, admits, calls, written>>

SvcTick ==
    /\ now < SvcMaxTime
    /\ now' = now + 1
    /\ UNCHANGED <<cfg, host, backendUp, admits, last, calls, written>>

NextSvc ==
    \/ SvcTick
    \/ \E req \in CheckRequests : ToolCheck(req)
    \/ \E req \in StatusRequests : ToolStatus(req)

\* the tools are run on the configurations of capacity 1, max_requests 1
\* and window_size 1
SvcConfigs ==
    {c \in Configs : c.capacity <= 1 /\ c.max_requests <= 1 /\ c.window_size <= 1}

InitSvc == Init /\ cfg \in SvcConfigs

SpecSvc == InitSvc /\ [][NextSvc]_vars

-----------------------------------------------------------------------------
(* Two FixedWindowAlgorithm.check calls on one key that may overlap.  Such a *)
(* call is three store steps, each reading the clock when it runs: the       *)
(* get_status read, the second read with the count update, and the write.   *)
(* Every other check runs alone, while neither of the two is under way.      *)

ConcMaxTime == 4

InitConc == Init /\ cfg.algorithm_type = FIXED_WINDOW_ALGORITHM

\* no call of the two callers is under way
Quiet == \A p \in Procs : calls[p].pc \in {"idle", "done"}

\* FixedWindowAlgorithm.check: status = self.get_status(key); a denied call
\* returns here.  The admission is dated at this read, which decides it.
ConcStatus(p) ==
    LET status == StatusVerdict(cfg, backendUp, host, KeyOf(T0), now)
    IN  /\ calls[p].pc = "idle"
        /\ host' = StatusEffect(cfg, backendUp, host, KeyOf(T0), now)
        /\ calls' = [calls EXCEPT ![p] = IF status.allowed = TRUE_STRING
                                          THEN [pc |-> "reread"] ELSE [pc |-> "done"]]
        /\ admits' = IF status.allowed = TRUE_STRING
                      THEN [admits EXCEPT ![T0] = Append(@, now)]
                      ELSE admits
        /\ UNCHANGED <<now, cfg, backendUp, last, written>>

\* FixedWindowAlgorithm.check: now, window_start, the second storage.get and
\* data[count] += 1, expire
ConcReread(p) ==
    LET k == StorageKey(cfg, KeyOf(T0))
    IN  /\ calls[p].pc = "reread"
        /\ host' = StorageGetEffect(backendUp, host, k, now)
        /\ calls' = [calls EXCEPT ![p] =
                        [pc |-> "write",
                         data |-> FixedWindowNewData(cfg, StorageGet(backendUp, host, k, now), now),
                         expire |-> FixedWindowExpire(cfg, now)]]
        /\ UNCHANGED <<now, cfg, backendUp, admits, last, written>>

\* FixedWindowAlgorithm.check: self.storage.set(storage_key, data, expire=expire)
ConcWrite(p) ==
    /\ calls[p].pc = "write"
    /\ host' = StorageSet(backendUp, host, StorageKey(cfg, KeyOf(T0)),
                          calls[p].data, calls[p].expire, now)
    /\ calls' = [calls EXCEPT ![p] = [pc |-> "done"]]
    /\ UNCHANGED <<now, cfg, backendUp, admits, last, written>>

\* a check that runs alone
SeqCheck == Quiet /\ CheckCall(T0)

ConcTick == now < ConcMaxTime /\ Tick

NextConc ==
    \/ ConcTick
    \/ SeqCheck
    \/ \E p \in Procs : ConcStatus(p)
    \/ \E p \in Procs : ConcReread(p)
    \/ \E p \in Procs : ConcWrite(p)

SpecConc == InitConc /\ [][NextConc]_vars

-----------------------------------------------------------------------------
(* The adapter alone: callers that set, get and delete the state key of T0   *)
(* and a configuration key, with the values the program stores there.        *)

StoreMaxTime == 3

\* expire arguments, in seconds; None and 0 are both written 0
StoreExpires == {0, 1}

\* one configuration of each algorithm
StoreConfigs == {c \in SvcConfigs : c.rate <= 1}

InitStore == Init /\ cfg \in StoreConfigs

StoreKeys == {StorageKey(cfg, KeyOf(T0)), StatusConfigKey("id1")}

\* the values the program passes to set: the algorithm state written by a
\* first admitted check, and a configuration record
StoreValues ==
    {NewData(cfg, None, 0),
     [action_type |-> "a1", algorithm_type |-> cfg.algorithm_type,
      rate |-> cfg.rate, capacity |-> cfg.capacity,
      max_requests |-> cfg.max_requests, window_size |-> cfg.window_size]}

\* PluginPersistentStorage.set(k, value, expire)
StoreSet(k, value, expire) ==
    /\ host' = StorageSet(backendUp, host, k, value, expire, now)
    /\ written' = [written EXCEPT ![k] =
                      [present |-> TRUE, value |-> value, at |-> now, expire |-> expire]]
    /\ last' = [op |-> "set", triple |-> T0, at |-> now, up |-> backendUp,
                pre |-> host[k], key |-> k, verdict |-> None]
    /\ UNCHANGED <<now, cfg, backendUp, admits, calls>>

\* PluginPersistentStorage.get(k)
StoreGet(k) ==
    /\ host' = StorageGetEffect(backendUp, host, k, now)
    /\ last' = [op |-> "get", triple |-> T0, at |-> now, up |-> backendUp,
                pre |-> host[k], key |-> k,
                verdict |-> StorageGet(backendUp, host, k, now)]
    /\ UNCHANGED <<now, cfg, backendUp, admits, calls, written>>

\* PluginPersistentStorage.delete(k)
StoreDelete(k) ==
    /\ host' = StorageDelete(backendUp, host, k)
    /\ written' = [written EXCEPT ![k] = Absent]
    /\ last' = [op |-> "delete", triple |-> T0, at |-> now, up |-> backendUp,
                pre |-> host[k], key |-> k, verdict |-> None]
    /\ UNCHANGED <<now, cfg, backendUp, admits, calls>>

StoreTick == now < StoreMaxTime /\ Tick

NextStore ==
    \/ StoreTick
    \/ \E k \in StoreKeys : \E value \in StoreValues : \E expire \in StoreExpires :
          StoreSet(k, value, expire)
    \/ \E k \in StoreKeys : StoreGet(k)
    \/ \E k \in StoreKeys : StoreDelete(k)

SpecStore == InitStore /\ [][NextStore]_vars

-----------------------------------------------------------------------------
(* Properties.  Adm is the history of the admitted checks of the caller T0, *)
(* S0 the host key of its state, Stored the state a healthy get would find  *)
(* there whatever its expiry.                                                *)

Adm == admits[T0]

S0 == StorageKey(cfg, KeyOf(T0))

IsAlgo(a) == cfg.algorithm_type = a

Called == last.op \in {"check", "status"}

AllowedV(v) == v.allowed = TRUE_STRING

\* the algorithm state held under host key k, None when there is none
Stored(h, k) ==
    IF ~h[k].present THEN None
    ELSE IF HasExpireAt(deserialize(h[k])) THEN deserialize(h[k]).data
    ELSE deserialize(h[k])

\* the number of admitted checks of T0 with time in the set of ticks I
AdmitsIn(I) == Cardinality({i \in DOMAIN Adm : Adm[i] \in I})

RECURSIVE AdmitRun(_, _, _, _, _, _)
\* how many of the next n checks at time t are admitted in a row
AdmitRun(c, up, h, key, t, n) ==
    IF n <= 0 THEN 0
    ELSE IF AllowedV(CheckVerdict(c, up, h, key, t))
         THEN 1 + AdmitRun(c, up, CheckEffect(c, up, h, key, t), key, t, n - 1)
         ELSE 0

\* C1 (as claimed): token bucket, one caller, a store that honours TTL: the
\* admitted requests in any time interval of length T number at most
\* capacity + rate*T.  In units: for the interval from the i-th to the j-th
\* admission, (j - i + 1) * Unit <= capacity * Unit + rate * (t_j - t_i).
C1_TokenBucketRateBound ==
    IsAlgo(TOKEN_BUCKET_ALGORITHM) =>
        \A i \in DOMAIN Adm : \A j \in DOMAIN Adm :
            i <= j => (j - i + 1) * Unit <= Cap(cfg) + cfg.rate * (Adm[j] - Adm[i])

\* C2: fixed window, one caller: the admitted requests whose time falls in
\* one aligned window [k*window_size, (k+1)*window_size) number at most
\* max_requests.
C2_FixedWindowBound ==
    IsAlgo(FIXED_WINDOW_ALGORITHM) =>
        \A w \in 0..Seconds(MaxTime) :
            AdmitsIn({t \in 0..MaxTime : Seconds(t) \div cfg.window_size = w})
                <= cfg.max_requests

\* C2 witness: a window is full (max_requests = 2 admitted in it), a check in
\* that window has just been denied, and an earlier window had admissions too.
C2_Witness ==
    /\ IsAlgo(FIXED_WINDOW_ALGORITHM) /\ cfg.max_requests = 2
    /\ last.op = "check" /\ last.at = now /\ ~AllowedV(last.verdict)
    /\ AdmitsIn({t \in 0..MaxTime : WindowStart(cfg, t) = WindowStart(cfg, now)}) = 2
    /\ Len(Adm) > 2

\* C3: sliding window, one caller: at the instant t of any admitted request
\* the admitted requests with time in (t - window_size, t] number at most
\* max_requests.
C3_SlidingWindowBound ==
    IsAlgo(SLIDING_WINDOW_ALGORITHM) =>
        \A j \in DOMAIN Adm :
            AdmitsIn({t \in 0..MaxTime : Adm[j] - Win(cfg) < t /\ t <= Adm[j]})
                <= cfg.max_requests

\* C3 witness: the window ending now holds max_requests = 2 admissions made at
\* different instants, a check has just been denied, and an older admission
\* has already left the window.
C3_Witness ==
    /\ IsAlgo(SLIDING_WINDOW_ALGORITHM) /\ cfg.max_requests = 2
    /\ last.op = "check" /\ last.at = now /\ ~AllowedV(last.verdict)
    /\ Len(Adm) >= 3
    /\ Adm[Len(Adm)] # Adm[Len(Adm) - 1]
    /\ Adm[1] <= now - Win(cfg)

\* C4 (as claimed): leaky bucket, one caller, fractional elapsed times: the
\* water written by an admitting check is at most capacity, and water never
\* exceeds capacity + 1.
C4_LeakyBucketBound ==
    (IsAlgo(LEAKY_BUCKET_ALGORITHM) /\ Stored(host, S0) # None) =>
        /\ Stored(host, S0).water <= Cap(cfg) + Unit
        /\ Stored(host, S0).water <= Cap(cfg)

\* C5: the remaining field of every verdict of check and get_status, of each
\* of the five algorithms, is >= 0.
C5_RemainingNonNegative ==
    Called => last.verdict.remaining >= 0

\* C5 witness: a leaky-bucket verdict computed from a water level strictly
\* between capacity and capacity + 1, where capacity - water is negative.
C5_Witness ==
    /\ IsAlgo(LEAKY_BUCKET_ALGORITHM) /\ Called /\ last.at = now
    /\ last.pre.present
    /\ LeakyBucketLeak(cfg, Stored([x \in {S0} |-> last.pre], S0), now) > Cap(cfg)
    /\ last.verdict.remaining = 0

\* C6: get_status never writes algorithm state; the only change it makes to
\* the host store is the removal of an entry that had already expired; a
\* status repeated at the same instant returns the same allowed/remaining;
\* and a check made after it returns the verdict and writes the state it
\* would have without it.
C6_StatusPure ==
    [][Status =>
        /\ \A k \in AllKeys :
              \/ host'[k] = host[k]
              \/ /\ host'[k] = Absent
                 /\ host[k].present
                 /\ HasExpireAt(deserialize(host[k]))
                 /\ deserialize(host[k]).expire_at <= now
        /\ StatusVerdict(cfg, backendUp, host', KeyOf(T0), now).allowed
              = last'.verdict.allowed
        /\ StatusVerdict(cfg, backendUp, host', KeyOf(T0), now).remaining
              = last'.verdict.remaining
        /\ CheckVerdict(cfg, backendUp, host', KeyOf(T0), now)
              = CheckVerdict(cfg, backendUp, host, KeyOf(T0), now)
        /\ CheckEffect(cfg, backendUp, host', KeyOf(T0), now)
              = CheckEffect(cfg, backendUp, host, KeyOf(T0), now)
    ]_vars

\* C6 witness: a status call has just found the state written by an earlier
\* admitted check expired and removed it from the host store.
C6_Witness ==
    /\ last.op = "status" /\ last.at = now
    /\ Adm # <<>>
    /\ last.pre.present
    /\ ~host[S0].present

\* C9: token bucket of capacity C, empty store, no time advance: a check is
\* admitted while fewer than C have been admitted, and once C have been
\* admitted the next is denied with rate_no_tokens; so exactly the first C
\* checks are admitted and the (C+1)-th is denied.
C9_TokenBucketBurst ==
    (IsAlgo(TOKEN_BUCKET_ALGORITHM) /\ now = 0 /\ last.op = "check") =>
        IF AllowedV(last.verdict)
        THEN Len(Adm) <= cfg.capacity
        ELSE Len(Adm) = cfg.capacity /\ last.verdict.reason_code = RATE_LIMIT_NO_TOKENS

\* C9 witness: capacity 3, three checks admitted at time 0 and the fourth
\* has just been denied with rate_no_tokens.
C9_Witness ==
    /\ IsAlgo(TOKEN_BUCKET_ALGORITHM) /\ cfg.capacity = 3 /\ now = 0
    /\ last.op = "check" /\ ~AllowedV(last.verdict)
    /\ last.verdict.reason_code = RATE_LIMIT_NO_TOKENS
    /\ Adm = <<0, 0, 0>>

\* C10 (as claimed): the remaining of every verdict of check or get_status
\* is a lower bound on the number of checks admitted immediately after the
\* call; and the k-th admitted check of a fresh token bucket of capacity C
\* reports remaining C - k (4, 3, 2, 1, 0 for C = 5).
C10_RemainingLowerBound ==
    (Called /\ last.at = now) =>
        /\ AdmitRun(cfg, backendUp, host, KeyOf(T0), now, last.verdict.remaining)
              >= last.verdict.remaining
        /\ (IsAlgo(TOKEN_BUCKET_ALGORITHM) /\ now = 0 /\ last.op = "check"
              /\ AllowedV(last.verdict))
             => last.verdict.remaining = cfg.capacity - Len(Adm)

\* C7 (as claimed): two requests whose (user_id, action_type, unique_id)
\* differ in at least one component use different algorithm-state keys, and
\* a check under one triple never changes the verdict under the other.
C7_Isolation ==
    [][\A req \in CheckRequests :
        (CheckValidate(req) = "" /\ ToolCheck(req)) =>
            \A q \in Triples :
                q # <<req.user_id, req.action_type, req.unique_id>> =>
                    /\ StorageKey(cfg, KeyOf(q))
                         # StorageKey(cfg, CompositeKey(req.user_id, req.action_type,
                                                       req.unique_id))
                    /\ StatusVerdict(cfg, backendUp, host', KeyOf(q), now)
                         = StatusVerdict(cfg, backendUp, host, KeyOf(q), now)
    ]_vars

\* C8: while every host operation fails, every check of each of the five
\* algorithms with capacity >= 1 and max_requests >= 1 is allowed with
\* reason_code rate_ok.
C8_FailOpen ==
    (last.op = "check" /\ ~last.up
       /\ (cfg.algorithm_type \in {TOKEN_BUCKET_ALGORITHM, LEAKY_BUCKET_ALGORITHM,
                                   MULTIPLE_BUCKETS_ALGORITHM} => cfg.capacity >= 1)
       /\ (cfg.algorithm_type \in {FIXED_WINDOW_ALGORITHM, SLIDING_WINDOW_ALGORITHM,
                                   MULTIPLE_BUCKETS_ALGORITHM} => cfg.max_requests >= 1))
    => /\ AllowedV(last.verdict)
       /\ last.verdict.reason_code = RATE_LIMIT_OK

\* C8 witness: the store is down and a check has just been admitted although
\* the state left in the host store would have it denied were the store up.
C8_Witness ==
    /\ ~backendUp /\ last.op = "check" /\ ~last.up /\ last.at = now
    /\ AllowedV(last.verdict)
    /\ ~AllowedV(StatusVerdict(cfg, TRUE, host, KeyOf(T0), now))

\* C11: fixed window, the calls of SpecConc (one pair of check calls that may
\* overlap in any interleaving of their store steps, every other check
\* alone): the admitted requests of one aligned window number at most
\* max_requests + 1.
C11_DoubleSpendBound ==
    IsAlgo(FIXED_WINDOW_ALGORITHM) =>
        \A w \in 0..Seconds(ConcMaxTime) :
            AdmitsIn({t \in 0..ConcMaxTime : Seconds(t) \div cfg.window_size = w})
                <= cfg.max_requests + 1

\* C11 witness: both overlapping calls were admitted and have written, the
\* window of the present instant holds max_requests + 1 admissions, and the
\* stored count of that window is max_requests.
C11_Witness ==
    /\ IsAlgo(FIXED_WINDOW_ALGORITHM)
    /\ \A p \in Procs : calls[p].pc = "done"
    /\ AdmitsIn({t \in 0..ConcMaxTime : WindowStart(cfg, t) = WindowStart(cfg, now)})
          = cfg.max_requests + 1
    /\ Stored(host, S0) # None
    /\ Stored(host, S0).start = WindowStart(cfg, now)
    /\ Stored(host, S0).count = cfg.max_requests

\* the check requests that return a verdict
GoodChecks == {req \in CheckRequests : CheckValidate(req) = "" /\ req.numeric = "given"}

\* the check requests validate_parameters must reject
BadChecks ==
    {req \in CheckRequests :
        req.user_id = "" \/ req.action_type = "" \/ req.algorithm_type \notin ALGORITHM_MAP}

\* the host keys of algorithm state and of configuration records
StateAndConfigKeys == AllKeys

\* C12 (as claimed): a status call for (user_id, u) made after a check for
\* (user_id, action_type, u) returned its verdict finds the configuration
\* record of that check: it returns a verdict, not the no-configuration
\* message, for the algorithm, parameters and action type the check used.
C12_CheckThenStatus ==
    [][\A req \in StatusRequests :
        (/\ last.op = "tool_check" /\ last.verdict.kind = "variables"
         /\ req.user_id = last.triple[1] /\ req.unique_id = last.triple[3]
         /\ ToolStatus(req))
        => /\ last'.verdict.kind = "variables"
           /\ last'.verdict.config.algorithm_type = cfg.algorithm_type
           /\ last'.verdict.config.action_type = last.triple[2]
           /\ last'.verdict.config.rate = cfg.rate
           /\ last'.verdict.config.capacity = cfg.capacity
           /\ last'.verdict.config.max_requests = cfg.max_requests
           /\ last'.verdict.config.window_size = cfg.window_size
    ]_vars

\* C13 (as claimed): after a check for unique_id u returned its verdict, the
\* configuration record stored for u holds the six fields of that request,
\* whether or not a record existed before.
C13_ConfigUpdated ==
    [][\A req \in GoodChecks :
        ToolCheck(req) =>
            /\ host'[CheckConfigKey(req.unique_id)].present
            /\ deserialize(host'[CheckConfigKey(req.unique_id)]) = ConfigOf(req)
    ]_vars

\* C14 (as claimed): a check that omits the numeric parameters of its
\* algorithm returns a verdict, computed with the documented defaults: on a
\* key without state it is allowed with remaining equal to the default
\* capacity or max_requests.
C14_DefaultParameters ==
    [][\A req \in CheckRequests :
        (CheckValidate(req) = "" /\ req.numeric = "omitted" /\ ToolCheck(req)) =>
            /\ last'.verdict.kind = "variables"
            /\ ~host[StorageKey(cfg, CompositeKey(req.user_id, req.action_type,
                                                  req.unique_id))].present
                 => /\ last'.verdict.allowed = TRUE_STRING
                    /\ last'.verdict.remaining = 100
    ]_vars

\* C15: a check request without user_id, without action_type or with an
\* algorithm_type outside the five tags ends with an error message and
\* leaves every algorithm-state key and configuration key of the host
\* store as it was.  (last' names a check request only in the step of that
\* request and in the ticks after it.)
C15_ValidationCostsNothing ==
    [][(last'.op = "tool_check" /\ last'.req \in BadChecks) =>
            /\ last'.verdict.kind = "text"
            /\ last'.verdict.text[1] = "Execution failed"
            /\ \A k \in StateAndConfigKeys : host'[k] = host[k]
    ]_vars

\* C15 witness: a rejected check request has just returned its error while
\* the store holds a configuration record and algorithm state of an earlier
\* admitted check.
C15_Witness ==
    /\ last.op = "tool_check" /\ last.verdict.kind = "text"
    /\ last.triple[1] = "" \/ last.triple[2] = ""
    /\ \E i \in UniqueIds : host[CheckConfigKey(i)].present
    /\ host[S0].present

Expected(k, t) ==
    IF written[k].present
       /\ (written[k].expire = 0 \/ t < written[k].at + written[k].expire * TicksPerSec)
    THEN written[k].value
    ELSE None

\* C17: after any sequence of set, delete and get on the host-KV adapter,
\* get(k) returns exactly the value of the most recent set(k, v[, ttl]) when
\* that set is unexpired and not followed by delete(k), and None otherwise;
\* the {data, expire_at} wrapper is never what a caller receives.
C17_ReadYourWrites ==
    /\ \A k \in StoreKeys : StorageGet(backendUp, host, k, now) = Expected(k, now)
    /\ (last.op = "get" /\ last.at = now) =>
          /\ last.verdict = Expected(last.key, now)
          /\ last.verdict # None => ~HasExpireAt(last.verdict)

\* C17 witness: a get has just returned the value of the last set, which the
\* host holds wrapped with its expire_at, after an earlier set of another
\* value under the same key.
C17_Witness ==
    /\ last.op = "get" /\ last.at = now
    /\ last.verdict # None
    /\ host[last.key].present
    /\ HasExpireAt(deserialize(host[last.key]))
    /\ written[last.key].at > 0

\* C18: after set(k, v, ttl) with ttl > 0 at time t0, a get(k) at a time
\* before t0 + ttl returns v and leaves the entry, a get(k) at a time from
\* t0 + ttl on returns None and leaves the host without the entry; after a
\* set with ttl None or 0 every get returns v.
C18_StoreTTL ==
    [][(last'.op = "get" /\ last'.at = now /\ now' = now /\ written[last'.key].present) =>
        LET k == last'.key
            w == written[k]
        IN  IF w.expire > 0 /\ now >= w.at + w.expire * TicksPerSec
            THEN last'.verdict = None /\ host'[k] = Absent
            ELSE last'.verdict = w.value /\ host'[k] = host[k] /\ host[k].present
    ]_vars

\* C18 witness: the first get at or after the expiry instant of the last set
\* has just returned None and removed the entry from the host.
C18_Witness ==
    /\ last.op = "get" /\ last.at = now
    /\ last.verdict = None
    /\ written[last.key].present /\ written[last.key].expire > 0
    /\ now >= written[last.key].at + written[last.key].expire * TicksPerSec
    /\ last.pre.present
    /\ ~host[last.key].present

\* the denial code of each algorithm
OwnCode(a) ==
    CASE a = TOKEN_BUCKET_ALGORITHM -> RATE_LIMIT_NO_TOKENS
      [] a = FIXED_WINDOW_ALGORITHM -> RATE_LIMIT_MAX_REQUESTS
      [] a = SLIDING_WINDOW_ALGORITHM -> RATE_LIMIT_WINDOW_LIMIT
      [] a = LEAKY_BUCKET_ALGORITHM -> RATE_LIMIT_QUEUE_FULL
      [] a = MULTIPLE_BUCKETS_ALGORITHM -> RATE_LIMIT_MULTIPLE

\* C19: in every verdict of check and get_status of each of the five
\* algorithms, allowed is "true" iff reason_code is rate_ok iff reason and
\* reason_cn are both empty; a denial carries the algorithm's own code and
\* two non-empty texts.
C19_VerdictWellFormed ==
    Called =>
        LET v == last.verdict
        IN  /\ v.allowed \in {TRUE_STRING, FALSE_STRING}
            /\ AllowedV(v) <=> v.reason_code = RATE_LIMIT_OK
            /\ AllowedV(v) <=> (v.reason = EmptyText /\ v.reason_cn = EmptyText)
            /\ ~AllowedV(v) =>
                  /\ v.reason_code = OwnCode(cfg.algorithm_type)
                  /\ v.reason # EmptyText
                  /\ v.reason_cn # EmptyText

\* C19 witness: a get_status of the leaky bucket has just returned a denial
\* with rate_queue_full, after an allowed check.
C19_Witness ==
    /\ IsAlgo(LEAKY_BUCKET_ALGORITHM)
    /\ last.op = "status" /\ ~AllowedV(last.verdict)
    /\ last.verdict.reason_code = RATE_LIMIT_QUEUE_FULL
    /\ last.verdict.reason # EmptyText
    /\ Adm # <<>>

\* the composite state MultipleBuckets finds at the call recorded in last
LastData ==
    MultipleBucketsData(cfg,
                        StorageGet(last.up, [k \in {S0} |-> last.pre], S0, last.at),
                        last.at)

\* C20: a MultipleBuckets verdict is allowed iff tokens >= 1 and
\* |requests| < max_requests and water < capacity on the sub-states
\* recomputed at the call; a denial has reason_code rate_multi and the text
\* of the first failing sub-limit in the order token, sliding, leaky.
C20_CompositeVerdict ==
    (IsAlgo(MULTIPLE_BUCKETS_ALGORITHM) /\ Called) =>
        LET tokens == TokenBucketRefill(cfg, LastData, last.at)
            requests == SlidingWindowRequests(cfg, LastData, last.at)
            water == LeakyBucketLeak(cfg, LastData, last.at)
            v == last.verdict
        IN  /\ AllowedV(v) <=> (/\ tokens >= Unit
                                 /\ Len(requests) < cfg.max_requests
                                 /\ water < Cap(cfg))
            /\ ~AllowedV(v) =>
                  /\ v.reason_code = RATE_LIMIT_MULTIPLE
                  /\ v.reason[1] = v.reason_cn[1]
                  /\ v.reason[1] =
                        IF tokens < Unit THEN "TOKEN_BUCKET_REASON_TEMPLATE"
                        ELSE IF Len(requests) >= cfg.max_requests
                             THEN "SLIDING_WINDOW_REASON_TEMPLATE"
                        ELSE "LEAKY_BUCKET_REASON_TEMPLATE"

\* C20 witness: capacity 2, max_requests 2: two checks admitted at time 0 and
\* the third has just been denied with the token-bucket text, although the
\* sliding window and the leaky bucket are full as well.
C20_Witness ==
    /\ IsAlgo(MULTIPLE_BUCKETS_ALGORITHM) /\ cfg.capacity = 2 /\ cfg.max_requests = 2
    /\ now = 0 /\ last.op = "check" /\ ~AllowedV(last.verdict)
    /\ Adm = <<0, 0>>
    /\ last.verdict.reason_code = RATE_LIMIT_MULTIPLE
    /\ last.verdict.reason[1] = "TOKEN_BUCKET_REASON_TEMPLATE"
    /\ Len(SlidingWindowRequests(cfg, LastData, 0)) >= cfg.max_requests
    /\ LeakyBucketLeak(cfg, LastData, 0) >= Cap(cfg)

\* what storage.get returned for the state key at the call recorded in last
PreGot == StorageGet(last.up, [k \in {S0} |-> last.pre], S0, last.at)

\* C21: fixed window: a stored state that reaches get_status or check with a
\* start other than the current aligned window start is treated as absent:
\* the verdict is the one of a fresh key (allowed, remaining = max_requests,
\* reset at the end of the current window) and an admitting check writes
\* count = 1 with the new start.
C21_FixedWindowReset ==
    (IsAlgo(FIXED_WINDOW_ALGORITHM) /\ Called /\ PreGot # None
        /\ PreGot.start # WindowStart(cfg, last.at)) =>
        /\ last.verdict = GetStatus(cfg, None, last.at)
        /\ AllowedV(last.verdict)
        /\ last.verdict.remaining = cfg.max_requests
        /\ last.verdict.reason_code = RATE_LIMIT_OK
        /\ last.verdict.reset_time = WindowStart(cfg, last.at) + cfg.window_size
        /\ last.op = "check" =>
              Stored(host, S0) = [start |-> WindowStart(cfg, last.at), count |-> 1]
        /\ last.op = "status" => host[S0] = last.pre

\* C21 witness: max_requests = 2: the old window was full (count 2 stored,
\* not yet expired), a check in the next window has just been admitted and
\* has written count 1 with the new start.
C21_Witness ==
    /\ IsAlgo(FIXED_WINDOW_ALGORITHM) /\ cfg.max_requests = 2
    /\ last.op = "check" /\ last.at = now
    /\ PreGot # None /\ PreGot.count = 2
    /\ PreGot.start < WindowStart(cfg, now)
    /\ AllowedV(last.verdict)
    /\ Stored(host, S0) = [start |-> WindowStart(cfg, now), count |-> 1]
    /\ Len(Adm) = 3

\* the admissions of T0 made before the check recorded in last
PriorAdm == IF AllowedV(last.verdict) THEN SubSeq(Adm, 1, Len(Adm) - 1) ELSE Adm

\* C22: sliding window, calls made one at a time: a check at time now is
\* allowed iff fewer than max_requests of the previously admitted requests
\* have a timestamp t > now - window_size (a sample exactly window_size old
\* no longer counts); a denial carries rate_window.
C22_SlidingWindowAdmission ==
    (IsAlgo(SLIDING_WINDOW_ALGORITHM) /\ last.op = "check") =>
        LET inWindow == {i \in DOMAIN PriorAdm : PriorAdm[i] > last.at - Win(cfg)}
        IN  /\ AllowedV(last.verdict) <=> Cardinality(inWindow) < cfg.max_requests
            /\ ~AllowedV(last.verdict) =>
                  last.verdict.reason_code = RATE_LIMIT_WINDOW_LIMIT

\* C22 witness: max_requests = 2: two requests were admitted, a third was
\* denied inside the window, and a check made exactly window_size after the
\* first admission has just been admitted while the second is still counted.
C22_Witness ==
    /\ IsAlgo(SLIDING_WINDOW_ALGORITHM) /\ cfg.max_requests = 2
    /\ last.op = "check" /\ last.at = now /\ AllowedV(last.verdict)
    /\ Len(Adm) = 3
    /\ Adm[1] = now - Win(cfg)
    /\ Adm[2] > now - Win(cfg)
    /\ Adm[3] = now

RECURSIVE WaterAfter(_, _)
\* the water level after the n-th admission of the sequence adm, by the
\* recurrence water = max(0, water_old - (now - last_leak)*rate) + 1
WaterAfter(adm, n) ==
    IF n = 0 THEN 0
    ELSE IF n = 1 THEN Unit
    ELSE Max(0, WaterAfter(adm, n - 1) - (adm[n] - adm[n - 1]) * cfg.rate) + Unit

\* C23 (as claimed): leaky bucket, calls made one at a time: the water level
\* a check decides on is max(0, water_old - (now - last_leak)*rate), with
\* water_old the level after the previous admit; the check is allowed iff
\* that level is below capacity, a denial carries rate_queue_full, and an
\* admit stores that level plus exactly 1.
C23_LeakyBucketAdmission ==
    (IsAlgo(LEAKY_BUCKET_ALGORITHM) /\ last.op = "check") =>
        LET n == Len(PriorAdm)
            level == IF n = 0 THEN 0
                     ELSE Max(0, WaterAfter(PriorAdm, n) - (last.at - PriorAdm[n]) * cfg.rate)
            used == LeakyBucketLeak(cfg, LeakyBucketData(cfg, PreGot, last.at), last.at)
        IN  /\ used = level
            /\ AllowedV(last.verdict) <=> level < Cap(cfg)
            /\ ~AllowedV(last.verdict) => last.verdict.reason_code = RATE_LIMIT_QUEUE_FULL
            /\ AllowedV(last.verdict) => Stored(host, S0).water = level + Unit

\* C24: token bucket, check and get_status calls made one at a time with
\* fixed parameters: every stored state has 0 <= tokens <= capacity, and an
\* admitting check stores min(capacity, tokens_old + (now - last_refill)*rate) - 1,
\* with tokens_old and last_refill the state its storage.get returned (a
\* fresh bucket when there was none).
C24_TokenRange ==
    IsAlgo(TOKEN_BUCKET_ALGORITHM) =>
        /\ Stored(host, S0) # None =>
              /\ 0 <= Stored(host, S0).tokens
              /\ Stored(host, S0).tokens <= Cap(cfg)
        /\ (last.op = "check" /\ AllowedV(last.verdict)) =>
              LET old == IF PreGot = None
                         THEN [tokens |-> Cap(cfg), last_refill |-> last.at]
                         ELSE PreGot
              IN  Stored(host, S0).tokens =
                     Min(Cap(cfg), old.tokens + (last.at - old.last_refill) * cfg.rate) - Unit

\* C24 witness: a check has just been admitted on a stored bucket that held
\* less than one token and was refilled past capacity by the elapsed time:
\* the refill was capped and capacity - 1 tokens are stored.
C24_Witness ==
    /\ IsAlgo(TOKEN_BUCKET_ALGORITHM)
    /\ last.op = "check" /\ last.at = now /\ AllowedV(last.verdict)
    /\ PreGot # None /\ PreGot.tokens < Unit
    /\ PreGot.tokens + (now - PreGot.last_refill) * cfg.rate > Cap(cfg)
    /\ Stored(host, S0).tokens = Cap(cfg) - Unit

-----------------------------------------------------------------------------
(* Two TokenBucket check calls that overlap.  TokenBucketAlgorithm.check is  *)
(* three store steps: the get_status read, the second read with the token   *)
(* taken, and the write.  Every other call runs alone.                       *)

TbMaxTime == 3

InitTb == Init /\ cfg.algorithm_type = TOKEN_BUCKET_ALGORITHM

\* TokenBucketAlgorithm.check: status = self.get_status(key); a denied call
\* returns here
TbStatus(p) ==
    LET status == StatusVerdict(cfg, backendUp, host, KeyOf(T0), now)
    IN  /\ calls[p].pc = "idle"
        /\ host' = StatusEffect(cfg, backendUp, host, KeyOf(T0), now)
        /\ calls' = [calls EXCEPT ![p] = IF status.allowed = TRUE_STRING
                                          THEN [pc |-> "reread"] ELSE [pc |-> "done"]]
        /\ admits' = IF status.allowed = TRUE_STRING
                      THEN [admits EXCEPT ![T0] = Append(@, now)]
                      ELSE admits
        /\ UNCHANGED <<now, cfg, backendUp, last, written>>

\* TokenBucketAlgorithm.check: now, the second storage.get, tokens -= 1,
\* new_data, expire
TbReread(p) ==
    LET k == StorageKey(cfg, KeyOf(T0))
    IN  /\ calls[p].pc = "reread"
        /\ host' = StorageGetEffect(backendUp, host, k, now)
        /\ calls' = [calls EXCEPT ![p] =
                        [pc |-> "write",
                         data |-> TokenBucketNewData(cfg, StorageGet(backendUp, host, k, now), now),
                         expire |-> TokenBucketExpire(cfg)]]
        /\ UNCHANGED <<now, cfg, backendUp, admits, last, written>>

\* TokenBucketAlgorithm.check: self.storage.set(storage_key, new_data, expire=expire)
TbWrite(p) ==
    /\ calls[p].pc = "write"
    /\ host' = StorageSet(backendUp, host, StorageKey(cfg, KeyOf(T0)),
                          calls[p].data, calls[p].expire, now)
    /\ calls' = [calls EXCEPT ![p] = [pc |-> "done"]]
    /\ UNCHANGED <<now, cfg, backendUp, admits, last, written>>

\* a check and a get_status that run alone
TbSeqCheck == Quiet /\ CheckCall(T0)

TbSeqStatus == Quiet /\ StatusCall(T0)

TbTick == now < TbMaxTime /\ Tick

NextTb ==
    \/ TbTick
    \/ TbSeqCheck
    \/ TbSeqStatus
    \/ \E p \in Procs : TbStatus(p)
    \/ \E p \in Procs : TbReread(p)
    \/ \E p \in Procs : TbWrite(p)

SpecTb == InitTb /\ [][NextTb]_vars

\* C25 (as claimed): a get_status or check that finds a stored token-bucket
\* state with tokens < 0 treats the key as absent: it decides as for a fresh
\* bucket with tokens = capacity, and an admitting check rewrites a state
\* with tokens in [0, capacity].
C25_NegativeTokensReset ==
    (IsAlgo(TOKEN_BUCKET_ALGORITHM) /\ Called /\ PreGot # None /\ PreGot.tokens < 0) =>
        /\ last.verdict = GetStatus(cfg, None, last.at)
        /\ AllowedV(last.verdict)
        /\ last.verdict.remaining = cfg.capacity
        /\ (last.op = "check" /\ Stored(host, S0) # None) =>
              /\ 0 <= Stored(host, S0).tokens
              /\ Stored(host, S0).tokens <= Cap(cfg)

\* C26: for each of the five algorithms, a check that returns allowed=false
\* performs no storage.set: the host store, and with it the stored state of
\* the key, is the same before and after the call, and the verdict returned
\* is the one get_status computes on that state.
C26_DeniedCheckNoOp ==
    [][(Check /\ last'.verdict.allowed = FALSE_STRING) =>
        /\ host' = host
        /\ last'.verdict = StatusVerdict(cfg, backendUp, host, KeyOf(T0), now)
        /\ last'.verdict = StatusVerdict(cfg, backendUp, host', KeyOf(T0), now)
    ]_vars

\* C26 witness: a MultipleBuckets check has just been denied and the state
\* written by the earlier admitted checks is still the stored one.
C26_Witness ==
    /\ IsAlgo(MULTIPLE_BUCKETS_ALGORITHM)
    /\ last.op = "check" /\ last.at = now /\ ~AllowedV(last.verdict)
    /\ last.pre.present
    /\ host[S0] = last.pre
    /\ Len(Stored(host, S0).requests) = Len(Adm)
    /\ Adm # <<>>

-----------------------------------------------------------------------------
(* One LeakyBucket check call step by step, with cancellation.  The call is  *)
(* the get_status read, the second read with the water added, the write and *)
(* the return of the verdict; the host may cancel it between any two steps. *)
(* Calls are made one at a time.  calls[p] keeps the call's locals and, as   *)
(* history, the host entry before the call (pre) and the times of its reads. *)

LkMaxTime == 3

\* the caller whose calls are followed
LkCallers == {"p1"}

InitLk == Init /\ cfg.algorithm_type = LEAKY_BUCKET_ALGORITHM

\* LeakyBucketAlgorithm.check: status = self.get_status(key)
LkStatus(p) ==
    LET status == StatusVerdict(cfg, backendUp, host, KeyOf(T0), now)
    IN  /\ Quiet
        /\ host' = StatusEffect(cfg, backendUp, host, KeyOf(T0), now)
        /\ calls' = [calls EXCEPT ![p] =
                        [pc |-> IF status.allowed = TRUE_STRING THEN "reread" ELSE "return",
                         status |-> status, pre |-> host[StorageKey(cfg, KeyOf(T0))],
                         t0 |-> now, t1 |-> now, wrote |-> FALSE]]
        /\ UNCHANGED <<now, cfg, backendUp, admits, last, written>>

\* LeakyBucketAlgorithm.check: now, the second storage.get, water += 1,
\* new_data, expire
LkReread(p) ==
    LET k == StorageKey(cfg, KeyOf(T0))
        new_data == LeakyBucketNewData(cfg, StorageGet(backendUp, host, k, now), now)
    IN  /\ calls[p].pc = "reread"
        /\ host' = StorageGetEffect(backendUp, host, k, now)
        /\ calls' = [calls EXCEPT ![p] =
                        [pc |-> "write", status |-> calls[p].status, pre |-> calls[p].pre,
                         t0 |-> calls[p].t0, t1 |-> now, wrote |-> FALSE,
                         data |-> new_data, expire |-> LeakyBucketExpire(cfg, new_data)]]
        /\ UNCHANGED <<now, cfg, backendUp, admits, last, written>>

\* LeakyBucketAlgorithm.check: self.storage.set(storage_key, new_data, expire=expire)
LkWrite(p) ==
    /\ calls[p].pc = "write"
    /\ host' = StorageSet(backendUp, host, StorageKey(cfg, KeyOf(T0)),
                          calls[p].data, calls[p].expire, now)
    /\ calls' = [calls EXCEPT ![p] =
                    [pc |-> "return", status |-> calls[p].status, pre |-> calls[p].pre,
                     t0 |-> calls[p].t0, t1 |-> calls[p].t1, wrote |-> TRUE]]
    /\ UNCHANGED <<now, cfg, backendUp, admits, last, written>>

\* LeakyBucketAlgorithm.check: return status
LkReturn(p) ==
    /\ calls[p].pc = "return"
    /\ calls' = [calls EXCEPT ![p] = [pc |-> "done"]]
    /\ last' = [op |-> "check", triple |-> T0, at |-> calls[p].t0, up |-> backendUp,
                pre |-> calls[p].pre, verdict |-> calls[p].status]
    /\ UNCHANGED <<now, cfg, host, backendUp, admits, written>>

\* the host cancels the call: it takes no further step and returns nothing
LkCancel(p) ==
    /\ calls[p].pc \in {"reread", "write", "return"}
    /\ calls' = [calls EXCEPT ![p] = [pc |-> "done", at |-> calls[p].pc,
                                      pre |-> calls[p].pre, wrote |-> calls[p].wrote]]
    /\ UNCHANGED <<now, cfg, host, backendUp, admits, last, written>>

LkTick == now < LkMaxTime /\ Tick

NextLk ==
    \/ LkTick
    \/ \E p \in LkCallers : LkStatus(p)
    \/ \E p \in LkCallers : LkReread(p)
    \/ \E p \in LkCallers : LkWrite(p)
    \/ \E p \in LkCallers : LkReturn(p)
    \/ \E p \in LkCallers : LkCancel(p)

SpecLk == InitLk /\ [][NextLk]_vars

\* the entry pre had expired at time t
ExpiredAt(pre, t) ==
    pre.present /\ HasExpireAt(deserialize(pre)) /\ deserialize(pre).expire_at <= t

\* the complete entry an admit writes at time t2 on the state it read at t1
\* when the entry before the call was pre
PostAdmit(pre, t1, t2) ==
    LET old == IF ~pre.present \/ ExpiredAt(pre, t1) THEN [water |-> 0, last_leak |-> t1]
               ELSE IF HasExpireAt(deserialize(pre)) THEN deserialize(pre).data
               ELSE deserialize(pre)
        water == Max(0, old.water - (t1 - old.last_leak) * cfg.rate) + Unit
        state == [water |-> water, last_leak |-> t1]
        ttl == water \div RateDiv(cfg)
    IN  IF ttl = 0 THEN [present |-> TRUE, pickle |-> state]
        ELSE [present |-> TRUE,
              pickle |-> [data |-> state, expire_at |-> t2 + ttl * TicksPerSec]]

\* C27: within one check call the store sees the status read, then the
\* re-read, then at most one write of the state key, in that order; so a
\* call interrupted at any step leaves either the complete pre-call state
\* (an entry that had already expired may have been removed by a read) or
\* the complete post-admit state, never a partial update.
C27_OrderAndCancellation ==
    [][\A p \in LkCallers :
        /\ (calls'[p] # calls[p] /\ calls'[p].pc # "idle" /\ calls[p].pc # "return") =>
              LET k == StorageKey(cfg, KeyOf(T0))
                  pre == calls'[p].pre
              IN  IF calls'[p].wrote
                  THEN /\ calls[p].pc = "write"
                       /\ calls[p].t0 <= calls[p].t1 /\ calls[p].t1 <= now
                       /\ host'[k] = PostAdmit(pre, calls[p].t1, now)
                  ELSE /\ host'[k] = pre \/ (host'[k] = Absent /\ ExpiredAt(pre, now))
                       /\ host'[k].present => host'[k] = host[k]
        /\ (calls'[p] # calls[p] /\ calls[p].pc = "return") => host' = host
      ]_vars

\* C27 witness: a call has been cancelled after its write and before its
\* return: the new state is stored, it differs from the state before the
\* call, and the caller has received no verdict for it.
C27_Witness ==
    \E p \in LkCallers :
        /\ calls[p].pc = "done" /\ "at" \in DOMAIN calls[p]
        /\ calls[p].at = "return" /\ calls[p].wrote
        /\ calls[p].pre.present
        /\ host[S0].present /\ host[S0] # calls[p].pre
        /\ Stored(host, S0).water > Unit
        /\ last.op = "none"

\* ceil(n/d) for n >= 0, d > 0
Ceil(n, d) == (n + d - 1) \div d

\* C28 (as claimed): every admitting TokenBucket check writes its state with
\* a TTL of ceil(1/rate) seconds, for every rate > 0: the entry written at
\* time t expires at t + ceil(1/rate).
C28_TokenBucketTTL ==
    (IsAlgo(TOKEN_BUCKET_ALGORITHM) /\ last.op = "check" /\ AllowedV(last.verdict)) =>
        /\ host[S0].present
        /\ HasExpireAt(deserialize(host[S0]))
        /\ deserialize(host[S0]).expire_at
              = last.at + Ceil(Unit, RateDiv(cfg)) * TicksPerSec

\* the admit recorded in last was made exactly on a window boundary
OnBoundary == last.at % Win(cfg) = 0

\* C29 (as claimed): the TTL that an admitting FixedWindow check passes to
\* the store is zero when the admit happens exactly on a window boundary; a
\* zero TTL is stored as an entry without expiry.
C29_BoundaryTTLZero ==
    (IsAlgo(FIXED_WINDOW_ALGORITHM) /\ last.op = "check" /\ AllowedV(last.verdict)
        /\ OnBoundary) =>
        ~HasExpireAt(deserialize(host[S0]))

\* C29 (amended): the TTL that an admitting FixedWindow check passes to the
\* store is window_size - (now mod window_size) with now in integer seconds:
\* it lies in 1..window_size, is never zero, and an admit exactly on a window
\* boundary passes window_size.
C29_FixedWindowTTL ==
    (IsAlgo(FIXED_WINDOW_ALGORITHM) /\ last.op = "check" /\ AllowedV(last.verdict)) =>
        /\ host[S0].present
        /\ HasExpireAt(deserialize(host[S0]))
        /\ LET ttl == deserialize(host[S0]).expire_at - last.at
           IN  /\ ttl = (cfg.window_size - (Seconds(last.at) % cfg.window_size)) * TicksPerSec
               /\ ttl >= TicksPerSec
               /\ ttl <= Win(cfg)
               /\ OnBoundary => ttl = Win(cfg)

\* C29 witness: a check has just been admitted exactly on the boundary
\* between two windows, after admissions in the window before, and its entry
\* expires a whole window later.
C29_Witness ==
    /\ IsAlgo(FIXED_WINDOW_ALGORITHM)
    /\ last.op = "check" /\ last.at = now /\ AllowedV(last.verdict)
    /\ now > 0 /\ OnBoundary
    /\ Len(Adm) >= 2 /\ Adm[1] < now
    /\ deserialize(host[S0]).expire_at = now + Win(cfg)

\* C30 (as claimed): on every TokenBucket denial the wait time interpolated
\* into the reason texts is ceil((1 - tokens)/rate) seconds, with tokens the
\* refilled level (< 1) at the call.
C30_TokenBucketWaitTime ==
    (IsAlgo(TOKEN_BUCKET_ALGORITHM) /\ Called /\ ~AllowedV(last.verdict)) =>
        LET old == IF PreGot = None
                   THEN [tokens |-> Cap(cfg), last_refill |-> last.at]
                   ELSE PreGot
            tokens == Min(Cap(cfg), old.tokens + (last.at - old.last_refill) * cfg.rate)
            wait == Ceil(Unit - tokens, RateDiv(cfg))
        IN  /\ tokens < Unit
            /\ last.verdict.reason[4] = format_time_duration(wait, "en")
            /\ last.verdict.reason_cn[4] = format_time_duration(wait, "cn")

-----------------------------------------------------------------------------
(* format_time_duration alone: a caller formats a number of seconds in both  *)
(* languages.  The inputs are the seconds around each change of unit and     *)
(* around each change from singular to plural.                               *)

\* how many seconds before and after each boundary are tried
FmtWindow == 8

\* the boundaries: unit changes at 60, 3600, 86400; the value becomes 2 at
\* 120, 7200, 172800
FmtBoundaries == {0, 60, 120, 3600, 7200, 86400, 172800}

FmtSeconds ==
    UNION {{s \in (b - FmtWindow)..(b + FmtWindow - 1) : s >= 0} : b \in FmtBoundaries}

InitFmt == Init /\ cfg = Params(TOKEN_BUCKET_ALGORITHM, 1, 1, 0, 0)

\* format_time_duration(seconds, "en") and format_time_duration(seconds, "cn")
Format(seconds) ==
    /\ last' = [op |-> "format", seconds |-> seconds,
                en |-> format_time_duration(seconds, "en"),
                cn |-> format_time_duration(seconds, "cn")]
    /\ UNCHANGED <<now, cfg, host, backendUp, admits, calls, written>>

NextFmt == \E seconds \in FmtSeconds : Format(seconds)

SpecFmt == InitFmt /\ [][NextFmt]_vars

\* C31: for every integer s >= 0, format_time_duration returns (s, seconds)
\* if s < 60, (s div 60, minutes) if s < 3600, (s div 3600, hours) if
\* s < 86400, else (s div 86400, days); the English unit is singular exactly
\* when the value is 1, and the Chinese and English values are equal.
C31_WaitTimeFormat ==
    last.op = "format" =>
        LET s == last.seconds
            value == IF s < 60 THEN s
                     ELSE IF s < 3600 THEN s \div 60
                     ELSE IF s < 86400 THEN s \div 3600
                     ELSE s \div 86400
            singular == IF s < 60 THEN "second"
                        ELSE IF s < 3600 THEN "minute"
                        ELSE IF s < 86400 THEN "hour"
                        ELSE "day"
            plural == IF s < 60 THEN "seconds"
                      ELSE IF s < 3600 THEN "minutes"
                      ELSE IF s < 86400 THEN "hours"
                      ELSE "days"
            unit_cn == IF s < 60 THEN "cn_second"
                       ELSE IF s < 3600 THEN "cn_minute"
                       ELSE IF s < 86400 THEN "cn_hour"
                       ELSE "cn_day"
        IN  /\ last.en[1] = value
            /\ last.cn[1] = value
            /\ last.en[2] \in {singular, plural}
            /\ last.en[2] = singular <=> value = 1
            /\ last.cn[2] = unit_cn

\* C31 witness: 7199 seconds have just been formatted as 1 hour, singular in
\* English, with the same value in Chinese.
C31_Witness ==
    /\ last.op = "format" /\ last.seconds = 7199
    /\ last.en = <<1, "hour">>
    /\ last.cn = <<1, "cn_hour">>

\* C32 (as claimed): for each of the five algorithms, after a denial that
\* reports reset_time R, with no request admitted on the key since, a check
\* made at time R is allowed.
C32_ResetTimeRecovers ==
    (Called /\ ~AllowedV(last.verdict)
        /\ now = last.verdict.reset_time * TicksPerSec) =>
        AllowedV(CheckVerdict(cfg, backendUp, host, KeyOf(T0), now))

-----------------------------------------------------------------------------
(* The limits of a key are lowered between calls.  Every tool call builds   *)
(* its algorithm object from the parameters of that call, while the state   *)
(* key depends on the algorithm type and the caller only: a later call with *)
(* a smaller capacity or max_requests reads the state an earlier call wrote *)
(* under the larger limits.                                                  *)

LowerMaxTime == 2

InitLower ==
    Init /\ cfg.algorithm_type \in {LEAKY_BUCKET_ALGORITHM, MULTIPLE_BUCKETS_ALGORITHM}

\* the next calls are made with a smaller capacity
LowerCapacity ==
    /\ \E cp \in Capacities :
          /\ cp < cfg.capacity
          /\ cfg' = [cfg EXCEPT !.capacity = cp]
    /\ UNCHANGED <<now, host, backendUp, admits, last, calls, written>>

\* the next calls are made with a smaller max_requests
LowerMaxRequests ==
    /\ \E m \in MaxRequests :
          /\ m < cfg.max_requests
          /\ cfg' = [cfg EXCEPT !.max_requests = m]
    /\ UNCHANGED <<now, host, backendUp, admits, last, calls, written>>

LowerTick == now < LowerMaxTime /\ Tick

NextLower == LowerTick \/ Check \/ Status \/ LowerCapacity \/ LowerMaxRequests

SpecLower == InitLower /\ [][NextLower]_vars

\* C33 (as claimed): LeakyBucket and MultipleBuckets: when the state of a key
\* was written under larger limits and a later check or get_status uses a
\* smaller capacity or max_requests, the remaining of the verdict is >= 0.
C33_RemainingAfterLowering ==
    ((IsAlgo(LEAKY_BUCKET_ALGORITHM) \/ IsAlgo(MULTIPLE_BUCKETS_ALGORITHM)) /\ Called) =>
        last.verdict.remaining >= 0

-----------------------------------------------------------------------------
(* PluginPersistentStorage.get is two host operations: the read of the      *)
(* entry and, when the entry has expired, the delete of the key.  A reader   *)
(* runs a get of the FixedWindow state key step by step while another       *)
(* caller makes complete check calls at any moment, between the two steps   *)
(* included.  last records the checks only.                                  *)

RaceMaxTime == 4

\* the caller whose get is taken step by step
Reader == "p1"

InitRace == Init /\ cfg.algorithm_type = FIXED_WINDOW_ALGORITHM

\* PluginPersistentStorage.get: data = self.storage.get(key), deserialize and
\* the expire_at test; the call ends here unless the entry has expired
RaceRead ==
    LET k == StorageKey(cfg, KeyOf(T0))
    IN  /\ calls[Reader].pc = "idle"
        /\ calls' = [calls EXCEPT ![Reader] =
                        IF backendUp /\ host[k].present /\ HasExpireAt(deserialize(host[k]))
                              /\ Expired(deserialize(host[k]), now)
                        THEN [pc |-> "delete"] ELSE Idle]
        /\ UNCHANGED <<now, cfg, host, backendUp, admits, last, written>>

\* PluginPersistentStorage.get: self.delete(key); return None
RaceDelete ==
    /\ calls[Reader].pc = "delete"
    /\ host' = StorageDelete(backendUp, host, StorageKey(cfg, KeyOf(T0)))
    /\ calls' = [calls EXCEPT ![Reader] = Idle]
    /\ UNCHANGED <<now, cfg, backendUp, admits, last, written>>

\* a complete check of another caller
RaceCheck == CheckCall(T0)

RaceTick == now < RaceMaxTime /\ Tick

NextRace == RaceTick \/ RaceRead \/ RaceDelete \/ RaceCheck

SpecRace == InitRace /\ [][NextRace]_vars

\* C34 (as claimed): a get that finds an expired entry and then deletes the
\* key never removes a newer state that a check wrote in between: the state
\* written by the last admitting check is in the store until its own TTL
\* has elapsed.
C34_ExpiredReadRace ==
    (IsAlgo(FIXED_WINDOW_ALGORITHM) /\ last.op = "check" /\ AllowedV(last.verdict)
        /\ now < last.at + FixedWindowExpire(cfg, last.at) * TicksPerSec) =>
        /\ host[S0].present
        /\ Stored(host, S0) = FixedWindowNewData(cfg, PreGot, last.at)

\* C35 (as claimed): when two TokenBucket check calls on one key interleave
\* (status read, re-read and write as separate store steps), every stored
\* tokens value stays >= 0 and every later verdict has remaining >= 0.
C35_TokenRangeInterleaved ==
    IsAlgo(TOKEN_BUCKET_ALGORITHM) =>
        /\ Stored(host, S0) # None => Stored(host, S0).tokens >= 0
        /\ Called => last.verdict.remaining >= 0

-----------------------------------------------------------------------------
(* Two MultipleBuckets check calls that overlap.  MultipleBucketsAlgorithm   *)
(* .check is three store steps: the get_status read, the second read with   *)
(* the three sub-states updated, and the write.  Every other call runs      *)
(* alone.                                                                    *)

MbMaxTime == 3

InitMb == Init /\ cfg.algorithm_type = MULTIPLE_BUCKETS_ALGORITHM

\* MultipleBucketsAlgorithm.check: status = self.get_status(key); a denied
\* call returns here
MbStatus(p) ==
    LET status == StatusVerdict(cfg, backendUp, host, KeyOf(T0), now)
    IN  /\ calls[p].pc = "idle"
        /\ host' = StatusEffect(cfg, backendUp, host, KeyOf(T0), now)
        /\ calls' = [calls EXCEPT ![p] = IF status.allowed = TRUE_STRING
                                          THEN [pc |-> "reread"] ELSE [pc |-> "done"]]
        /\ UNCHANGED <<now, cfg, backendUp, admits, last, written>>

\* MultipleBucketsAlgorithm.check: now, the second storage.get, tokens -= 1,
\* the request appended, water += 1, new_data
MbReread(p) ==
    LET k == StorageKey(cfg, KeyOf(T0))
    IN  /\ calls[p].pc = "reread"
        /\ host' = StorageGetEffect(backendUp, host, k, now)
        /\ calls' = [calls EXCEPT ![p] =
                        [pc |-> "write",
                         data |-> MultipleBucketsNewData(cfg, StorageGet(backendUp, host, k, now), now)]]
        /\ UNCHANGED <<now, cfg, backendUp, admits, last, written>>

\* MultipleBucketsAlgorithm.check: self.storage.set(storage_key, new_data,
\* expire=self.window_size)
MbWrite(p) ==
    /\ calls[p].pc = "write"
    /\ host' = StorageSet(backendUp, host, StorageKey(cfg, KeyOf(T0)),
                          calls[p].data, cfg.window_size, now)
    /\ calls' = [calls EXCEPT ![p] = [pc |-> "done"]]
    /\ UNCHANGED <<now, cfg, backendUp, admits, last, written>>

\* a check and a get_status that run alone
MbSeqCheck == Quiet /\ CheckCall(T0)

MbSeqStatus == Quiet /\ StatusCall(T0)

MbTick == now < MbMaxTime /\ Tick

NextMb ==
    \/ MbTick
    \/ MbSeqCheck
    \/ MbSeqStatus
    \/ \E p \in Procs : MbStatus(p)
    \/ \E p \in Procs : MbReread(p)
    \/ \E p \in Procs : MbWrite(p)

SpecMb == InitMb /\ [][NextMb]_vars

\* C36: with fixed parameters every state written by MultipleBuckets check
\* has tokens + water = capacity and last_refill = last_leak, whatever the
\* sequence or interleaving of calls and across TTL expiry; so in every
\* verdict tokens >= 1 implies water < capacity, and a denial carries the
\* token-bucket or the sliding-window text, never the leaky-bucket or the
\* fallback text.
C36_CompositeConservation ==
    IsAlgo(MULTIPLE_BUCKETS_ALGORITHM) =>
        /\ Stored(host, S0) # None =>
              /\ Stored(host, S0).tokens + Stored(host, S0).water = Cap(cfg)
              /\ Stored(host, S0).last_refill = Stored(host, S0).last_leak
        /\ Called =>
              LET tokens == Min(Cap(cfg),
                                LastData.tokens + (last.at - LastData.last_refill) * cfg.rate)
                  water == Max(0, LastData.water - (last.at - LastData.last_leak) * cfg.rate)
              IN  /\ tokens + water = Cap(cfg)
                  /\ tokens >= Unit => water < Cap(cfg)
        /\ (Called /\ ~AllowedV(last.verdict)) =>
              last.verdict.reason[1] \in {"TOKEN_BUCKET_REASON_TEMPLATE",
                                          "SLIDING_WINDOW_REASON_TEMPLATE"}

\* C36 witness: two overlapping checks have left tokens below 0 and water
\* above capacity, still summing to capacity, and a check made after them
\* has been denied with the token-bucket text.
C36_Witness ==
    /\ IsAlgo(MULTIPLE_BUCKETS_ALGORITHM)
    /\ Stored(host, S0) # None
    /\ Stored(host, S0).tokens < 0
    /\ Stored(host, S0).water > Cap(cfg)
    /\ Stored(host, S0).tokens + Stored(host, S0).water = Cap(cfg)
    /\ last.op = "check" /\ ~AllowedV(last.verdict)
    /\ last.verdict.reason[1] = "TOKEN_BUCKET_REASON_TEMPLATE"

-----------------------------------------------------------------------------
(* Two runs of the same calls side by side: one against the adapter, whose  *)
(* entries expire, and one against a store that never expires, which is the *)
(* adapter with every expire argument dropped.  In this specification the   *)
(* variable written holds the store of the second run, and last records the *)
(* verdicts of both runs.                                                    *)

TwinMaxTime == 4

InitTwin ==
    Init /\ cfg.algorithm_type \in {SLIDING_WINDOW_ALGORITHM, LEAKY_BUCKET_ALGORITHM}

\* check(key) against a store that never expires: the store it leaves
CheckEffectNoExpiry(c, up, h, key, t) ==
    LET k == StorageKey(c, key)
    IN  IF CheckVerdict(c, up, h, key, t).allowed = TRUE_STRING
        THEN StorageSet(up, h, k, NewData(c, StorageGet(up, h, k, t), t), 0, t)
        ELSE h

\* algorithm.check(key) in both runs
TwinCheck ==
    /\ host' = CheckEffect(cfg, backendUp, host, KeyOf(T0), now)
    /\ written' = CheckEffectNoExpiry(cfg, backendUp, written, KeyOf(T0), now)
    /\ last' = [op |-> "check", triple |-> T0, at |-> now, up |-> backendUp,
                pre |-> host[StorageKey(cfg, KeyOf(T0))],
                verdict |-> CheckVerdict(cfg, backendUp, host, KeyOf(T0), now),
                twin |-> CheckVerdict(cfg, backendUp, written, KeyOf(T0), now)]
    /\ UNCHANGED <<now, cfg, backendUp, admits, calls>>

\* algorithm.get_status(key) in both runs
TwinStatus ==
    /\ host' = StatusEffect(cfg, backendUp, host, KeyOf(T0), now)
    /\ last' = [op |-> "status", triple |-> T0, at |-> now, up |-> backendUp,
                pre |-> host[StorageKey(cfg, KeyOf(T0))],
                verdict |-> StatusVerdict(cfg, backendUp, host, KeyOf(T0), now),
                twin |-> StatusVerdict(cfg, backendUp, written, KeyOf(T0), now)]
    /\ UNCHANGED <<now, cfg, backendUp, admits, calls, written>>

TwinTick == now < TwinMaxTime /\ Tick

NextTwin == TwinTick \/ TwinCheck \/ TwinStatus

SpecTwin == InitTwin /\ [][NextTwin]_vars

\* C37: sliding window, fixed parameters, calls made one at a time: every
\* check and get_status returns the same allowed, remaining and reset_time
\* against the store that expires entries window_size seconds after the
\* write as against the store that never expires.
C37_SlidingWindowTTLInsensitive ==
    (IsAlgo(SLIDING_WINDOW_ALGORITHM) /\ Called) =>
        /\ last.verdict.allowed = last.twin.allowed
        /\ last.verdict.remaining = last.twin.remaining
        /\ last.verdict.reset_time = last.twin.reset_time

\* C37 witness: the entry of the first run had expired and was removed by
\* the status read of a check, the second run still held its state, and the
\* check was admitted in both with the same remaining and reset_time.
C37_Witness ==
    /\ IsAlgo(SLIDING_WINDOW_ALGORITHM)
    /\ last.op = "check" /\ last.at = now
    /\ last.pre.present /\ ExpiredAt(last.pre, now)
    /\ Stored(written, S0) # None /\ Len(Stored(written, S0).requests) = 1
    /\ Stored(host, S0) = Stored(written, S0)
    /\ AllowedV(last.verdict) /\ AllowedV(last.twin)
    /\ last.verdict.reset_time = last.twin.reset_time

\* C38: leaky bucket, fixed rate and capacity >= 1, checks made one at a
\* time: every check returns the same allowed against the store that expires
\* the state int(water/rate) seconds after the write as against the store
\* that never expires.
C38_LeakyBucketTTLInsensitive ==
    (IsAlgo(LEAKY_BUCKET_ALGORITHM) /\ Called /\ last.op = "check") =>
        last.verdict.allowed = last.twin.allowed

\* C39: multiple buckets, fixed parameters, calls made one at a time, state
\* expiring window_size seconds after the last admit: the admitted requests
\* in any time interval of length T number at most capacity + rate*T.  In
\* units: for the interval from the i-th to the j-th admission,
\* (j - i + 1) * Unit <= capacity * Unit + rate * (t_j - t_i).
C39_CompositeRateBound ==
    IsAlgo(MULTIPLE_BUCKETS_ALGORITHM) =>
        \A i \in DOMAIN Adm : \A j \in DOMAIN Adm :
            i <= j => (j - i + 1) * Unit <= Cap(cfg) + cfg.rate * (Adm[j] - Adm[i])

-----------------------------------------------------------------------------
(* Recovery after a denial.  The clock keeps advancing (time.time() is the  *)
(* wall clock) and the denied caller comes back.  So that every denial has  *)
(* the time to recover before the clock of the model stops, new requests   *)
(* arrive only up to LiveCallTime; after that the only check made is the    *)
(* retry of a denied caller once it would be admitted, and the clock runs   *)
(* on for the longest recovery: one token or one request worth of water at  *)
(* the slowest rate, or the longest window.                                  *)

LiveCallTime == 1

MaxWindowSize == CHOOSE w \in WindowSizes : \A v \in WindowSizes : v <= w

LiveMaxTime == LiveCallTime + Max(Unit, MaxWindowSize * TicksPerSec)

LiveTick ==
    /\ now < LiveMaxTime
    /\ now' = now + 1
    /\ UNCHANGED <<cfg, host, backendUp, admits, last, calls, written>>

LiveCheck ==
    /\ now <= LiveCallTime
        \/ /\ last.op = "check" /\ ~AllowedV(last.verdict)
           /\ AllowedV(CheckVerdict(cfg, backendUp, host, KeyOf(T0), now))
    /\ Check

NextLive == LiveTick \/ LiveCheck

SpecLive == Init /\ [][NextLive]_vars /\ WF_vars(LiveTick) /\ WF_vars(LiveCheck)

\* C40: each of the five algorithms, rate > 0, window_size > 0, capacity >= 1,
\* max_requests >= 1: after a check on a key is denied, while time keeps
\* advancing, a later check on that key is eventually allowed.
C40_EventualRecovery ==
    (last.op = "check" /\ ~AllowedV(last.verdict))
        ~> (last.op = "check" /\ AllowedV(last.verdict))

\* C40 witness: a check was denied, time advanced, and the next check on the
\* key was allowed from the state the admits before the denial had left.
C40_Witness ==
    /\ last.op = "check" /\ AllowedV(last.verdict) /\ last.at > LiveCallTime
    /\ Len(Adm) >= 2 /\ Adm[Len(Adm)] = last.at
    /\ last.pre.present /\ ~ExpiredAt(last.pre, last.at)
    /\ ~AllowedV(CheckVerdict(cfg, last.up, [k \in {S0} |-> last.pre], KeyOf(T0),
                              last.at - 1))

====
